---- MODULE Spec2Model ----
(***************************************************************************)
(* A model of the RunForge ml_runner core: the provenance index            *)
(* (provenance.py), the training run that feeds it (runner.py), the        *)
(* profile registry with its expansion hash (profiles.py) and the          *)
(* parameter resolver (resolver.py).                                       *)
(*                                                                         *)
(* Python values are modelled as tagged records: a dict is                 *)
(* [t |-> "dict", d |-> <record>], a list is [t |-> "list", l |-> <seq>].  *)
(* A file is modelled by what a reader finds in it: the text json.dump     *)
(* writes for a value (and how much of that text has reached the file),    *)
(* or foreign bytes.                                                       *)
(***************************************************************************)
EXTENDS Integers, Sequences, FiniteSets, TLC

VARIABLES
  fs,        \* the .runforge directory: [dir, index, tmp, backups]
  now,       \* the wall clock, in whole seconds (int(datetime.now().timestamp()))
  platform,  \* "posix" or "windows": decides what Path.rename does to an existing target
  op,        \* per process: the provenance call in flight and its position
  ret,       \* per process: how its last provenance call ended
  calls,     \* the entries of the append_run_to_index calls that returned, in order
  faults,    \* how many times the environment has overwritten index.json so far
  PROFILES,  \* the profile registry of profiles.py, a module-level dict
  expanded,  \* the results of the expand_profile calls made so far, in order
  hashed,    \* the _compute_expansion_hash calls made so far: arguments and digest
  rcall,     \* the arguments of the resolve_config call under study
  rret,      \* how that call ended
  run,       \* the run_training call: its arguments, position and locals
  out,       \* the files of the run's output directory
  stdout,    \* what run_training has printed about the provenance index and its end
  fcall,     \* a call of a function studied on its own: its name and arguments
  fret,      \* how that call ended
  collector, \* the DiagnosticsCollector: its _diagnostics attribute, a reference to a list
  lists,     \* the list objects the collector and its caller hold, by reference
  cret,      \* what the last call of a collector method returned
  added      \* the diagnostics passed to add since the last clear, in order

provenanceVars == << fs, now, platform, op, ret, calls, faults >>
registryVars == << PROFILES, expanded, hashed >>
resolverVars == << rcall, rret >>
runVars == << run, out, stdout >>
callVars == << fcall, fret >>
collectorVars == << collector, lists, cret, added >>
vars == << provenanceVars, registryVars, resolverVars, runVars, callVars, collectorVars >>

-----------------------------------------------------------------------------
(* Bounds of the model.                                                    *)

MaxRuns == 2       \* append calls started per behaviour
MaxTime == 1       \* the clock runs from 0 to MaxTime
MaxFaults == 2     \* times the environment overwrites index.json

-----------------------------------------------------------------------------
(* Python values.                                                          *)

None == [t |-> "None"]
PyDict(d) == [t |-> "dict", d |-> d]
PyList(l) == [t |-> "list", l |-> l]
PyInt(n) == [t |-> "int", i |-> n]
PyStr(s) == [t |-> "str", s |-> s]
PyBool(b) == [t |-> "bool", b |-> b]

INDEX_SCHEMA_VERSION == "0.2.2.1"

EmptyIndex == PyDict([schema_version |-> INDEX_SCHEMA_VERSION, runs |-> PyList(<< >>)])

(* The arguments of append_run_to_index the model draws from.  Every field *)
(* has its own values, so that a field stored under the wrong key shows.   *)
RunIds == {"run-1", "run-2"}
Fingerprints == {"fp-a", "fp-b"}
RunArgs ==
  [run_id : RunIds, created_at : {"2026-01-31T00:00:00+00:00"},
   dataset_fingerprint : Fingerprints, label_column : {"label"},
   run_dir : {"runs/x/run.json"}, model_pkl : {"runs/x/artifacts/model.pkl"}]

-----------------------------------------------------------------------------
(* Files.                                                                  *)

NoFile == [k |-> "absent"]

(* The text json.dump(value, indent=2, sort_keys=True) followed by "\n",   *)
(* of which the file holds: nothing yet ("empty"), a proper prefix of the  *)
(* JSON ("partial"), the whole JSON without the final newline ("body"),    *)
(* or all of it ("full").                                                  *)
Text(value, upto) == [k |-> "text", json |-> value, upto |-> upto]

(* Bytes that are no output of save_index.                                 *)
Bytes(id) == [k |-> "bytes", id |-> id]

(* What the environment may leave at index.json: bytes that are no JSON,   *)
(* bytes that are no UTF-8, brackets nested deeper than the interpreter's  *)
(* recursion limit, and JSON documents that are no index.                  *)
ForeignContents ==
  { Bytes("garbage"), Bytes("not-utf8"), Bytes("deep-nesting"),
    Text(PyList(<< >>), "full"),
    Text(PyDict([schema_version |-> INDEX_SCHEMA_VERSION]), "full"),
    Text(PyDict([schema_version |-> INDEX_SCHEMA_VERSION, runs |-> PyInt(5)]), "full") }

(* json.load(f) on a file with this content: the value, or the exception.  *)
json_load(content) ==
  IF content.k = "text"
    THEN IF content.upto \in {"body", "full"}
           THEN [raised |-> "none", value |-> content.json]
           ELSE [raised |-> "JSONDecodeError", value |-> None]
    ELSE CASE content.id = "garbage" -> [raised |-> "JSONDecodeError", value |-> None]
           [] content.id = "not-utf8" -> [raised |-> "UnicodeDecodeError", value |-> None]
           [] OTHER -> [raised |-> "RecursionError", value |-> None]

(* The exceptions "except (json.JSONDecodeError, ValueError)" catches:     *)
(* JSONDecodeError and UnicodeDecodeError are subclasses of ValueError,    *)
(* RecursionError is a RuntimeError.                                       *)
CaughtByLoad == {"JSONDecodeError", "ValueError", "UnicodeDecodeError"}

(* Path.rename(target): os.rename replaces an existing file on POSIX and   *)
(* raises FileExistsError on Windows.                                      *)
path_rename(f, ts, plat) ==
  IF plat = "windows" /\ ts \in DOMAIN f.backups
    THEN [raised |-> "FileExistsError", fs |-> f]
    ELSE [raised |-> "none",
          fs |-> [f EXCEPT !.index = NoFile,
                           !.backups = [s \in (DOMAIN f.backups) \cup {ts} |->
                                          IF s = ts THEN f.index ELSE f.backups[s]]]]

(* load_index: a missing file gives a fresh index and writes nothing; a    *)
(* file that parses to a dict with a "runs" key is returned as it is; on   *)
(* JSONDecodeError or ValueError the file is renamed to                    *)
(* index.json.corrupt.<ts> and a fresh index is returned.  Any other       *)
(* exception, and one raised by the rename, leaves load_index.             *)
load_index(f, ts, plat) ==
  IF f.index.k = "absent"
    THEN [raised |-> "none", value |-> EmptyIndex, fs |-> f]
    ELSE LET r == json_load(f.index)
             exc == IF r.raised # "none" THEN r.raised
                    ELSE IF r.value.t # "dict" THEN "ValueError"
                    ELSE IF "runs" \notin DOMAIN r.value.d THEN "ValueError"
                    ELSE "none"
         IN  IF exc = "none"
               THEN [raised |-> "none", value |-> r.value, fs |-> f]
             ELSE IF exc \in CaughtByLoad
               THEN LET mv == path_rename(f, ts, plat)
                    IN  IF mv.raised = "none"
                          THEN [raised |-> "none", value |-> EmptyIndex, fs |-> mv.fs]
                          ELSE [raised |-> mv.raised, value |-> None, fs |-> f]
             ELSE [raised |-> exc, value |-> None, fs |-> f]

(* The steps of save_index, each as a change of the directory.             *)
fs_mkdir(f) == [f EXCEPT !.dir = TRUE]

(* A save that opens index.json itself for writing, with no temp file      *)
(* between.                                                                *)
fs_open_w_in_place(f, index) ==
  [f EXCEPT !.index = Text(index, "empty"), !.tmp = Text(index, "empty")]

fs_open_w(f, index) == [f EXCEPT !.tmp = Text(index, "empty")]
fs_write(f, upto) == [f EXCEPT !.tmp = [@ EXCEPT !.upto = upto]]

(* A rename that leaves an existing index.json as it is.                   *)
fs_replace_if_absent(f) ==
  IF f.index.k = "absent" THEN [f EXCEPT !.index = f.tmp, !.tmp = NoFile]
  ELSE [f EXCEPT !.tmp = NoFile]

fs_replace(f) == [f EXCEPT !.index = f.tmp, !.tmp = NoFile]

(* save_index run to its end; io_ok = FALSE is an open() of the temp file  *)
(* that fails with OSError.                                                *)
save_index(f, index, io_ok) ==
  IF io_ok
    THEN [raised |-> "none",
          fs |-> fs_replace(fs_write(fs_write(fs_write(
                   fs_open_w(fs_mkdir(f), index), "partial"), "body"), "full"))]
    ELSE [raised |-> "OSError", fs |-> fs_mkdir(f)]

(* The entry append_run_to_index builds from its arguments.                *)
new_entry(a) ==
  [run_id |-> a.run_id,
   created_at |-> a.created_at,
   dataset_fingerprint_sha256 |-> a.dataset_fingerprint,
   label_column |-> a.label_column,
   run_dir |-> a.run_dir,
   model_pkl |-> a.model_pkl]

(* An append that puts the new entry first: runs.insert(0, entry).         *)
runs_append_first(index, entry) ==
  IF index.d.runs.t = "list"
    THEN [raised |-> "none",
          value |-> PyDict([index.d EXCEPT !.runs = PyList(<< entry >> \o index.d.runs.l)])]
    ELSE [raised |-> "AttributeError", value |-> None]

(* index["runs"].append(entry): only a list has append.                    *)
runs_append(index, entry) ==
  IF index.d.runs.t = "list"
    THEN [raised |-> "none",
          value |-> PyDict([index.d EXCEPT !.runs = PyList(Append(index.d.runs.l, entry))])]
    ELSE [raised |-> "AttributeError", value |-> None]

(* append_run_to_index run to its end: load, append in memory, save.       *)
append_run_to_index(f, ts, plat, a, io_ok) ==
  LET ld == load_index(f, ts, plat)
  IN  IF ld.raised # "none"
        THEN [raised |-> ld.raised, fs |-> ld.fs]
        ELSE LET ap == runs_append(ld.value, new_entry(a))
             IN  IF ap.raised # "none"
                   THEN [raised |-> ap.raised, fs |-> ld.fs]
                   ELSE save_index(ld.fs, ap.value, io_ok)

-----------------------------------------------------------------------------
(* hashlib.sha256 over a sequence of bytes.  A 32-bit word is a pair       *)
(* << high 16 bits, low 16 bits >>; XOR and AND go nibble by nibble        *)
(* through the two tables.                                                 *)

SHA256_K ==
  <<
    <<17034,12184>>, <<28983,17553>>, <<46528,64463>>, <<59829,56229>>,
    <<14678,49755>>, <<23025,4593>>, <<37439,33444>>, <<43804,24277>>,
    <<55303,43672>>, <<4739,23297>>, <<9265,34238>>, <<21772,32195>>,
    <<29374,23924>>, <<32990,45566>>, <<39900,1703>>, <<49563,61812>>,
    <<58523,27073>>, <<61374,18310>>, <<4033,40390>>, <<9228,41420>>,
    <<11753,11375>>, <<19060,33962>>, <<23728,43484>>, <<30457,35034>>,
    <<38974,20818>>, <<43057,50797>>, <<45059,10184>>, <<48985,32711>>,
    <<50912,3059>>, <<54695,37191>>, <<1738,25425>>, <<5161,10599>>,
    <<10167,2693>>, <<11803,8504>>, <<19756,28156>>, <<21304,3347>>,
    <<25866,29524>>, <<30314,2747>>, <<33218,51502>>, <<37490,11397>>,
    <<41663,59553>>, <<43034,26187>>, <<49739,35696>>, <<51052,20899>>,
    <<53650,59417>>, <<54937,1572>>, <<62478,13701>>, <<4202,41072>>,
    <<6564,49430>>, <<7735,27656>>, <<10056,30540>>, <<13488,48309>>,
    <<14620,3251>>, <<20184,43594>>, <<23452,51791>>, <<26670,28659>>,
    <<29839,33518>>, <<30885,25455>>, <<33992,30740>>, <<36039,520>>,
    <<37054,65530>>, <<42064,27883>>, <<48889,41975>>, <<50801,30962>> >>

SHA256_H0 ==
  <<
    <<27145,58983>>, <<47975,44677>>, <<15470,62322>>, <<42319,62778>>,
    <<20750,21119>>, <<39685,26764>>, <<8067,55723>>, <<23520,52505>> >>

XorNibble ==
  <<
    <<0, 1, 2, 3, 4, 5, 6, 7, 8, 9, 10, 11, 12, 13, 14, 15>>,
    <<1, 0, 3, 2, 5, 4, 7, 6, 9, 8, 11, 10, 13, 12, 15, 14>>,
    <<2, 3, 0, 1, 6, 7, 4, 5, 10, 11, 8, 9, 14, 15, 12, 13>>,
    <<3, 2, 1, 0, 7, 6, 5, 4, 11, 10, 9, 8, 15, 14, 13, 12>>,
    <<4, 5, 6, 7, 0, 1, 2, 3, 12, 13, 14, 15, 8, 9, 10, 11>>,
    <<5, 4, 7, 6, 1, 0, 3, 2, 13, 12, 15, 14, 9, 8, 11, 10>>,
    <<6, 7, 4, 5, 2, 3, 0, 1, 14, 15, 12, 13, 10, 11, 8, 9>>,
    <<7, 6, 5, 4, 3, 2, 1, 0, 15, 14, 13, 12, 11, 10, 9, 8>>,
    <<8, 9, 10, 11, 12, 13, 14, 15, 0, 1, 2, 3, 4, 5, 6, 7>>,
    <<9, 8, 11, 10, 13, 12, 15, 14, 1, 0, 3, 2, 5, 4, 7, 6>>,
    <<10, 11, 8, 9, 14, 15, 12, 13, 2, 3, 0, 1, 6, 7, 4, 5>>,
    <<11, 10, 9, 8, 15, 14, 13, 12, 3, 2, 1, 0, 7, 6, 5, 4>>,
    <<12, 13, 14, 15, 8, 9, 10, 11, 4, 5, 6, 7, 0, 1, 2, 3>>,
    <<13, 12, 15, 14, 9, 8, 11, 10, 5, 4, 7, 6, 1, 0, 3, 2>>,
    <<14, 15, 12, 13, 10, 11, 8, 9, 6, 7, 4, 5, 2, 3, 0, 1>>,
    <<15, 14, 13, 12, 11, 10, 9, 8, 7, 6, 5, 4, 3, 2, 1, 0>> >>

AndNibble ==
  <<
    <<0, 0, 0, 0, 0, 0, 0, 0, 0, 0, 0, 0, 0, 0, 0, 0>>,
    <<0, 1, 0, 1, 0, 1, 0, 1, 0, 1, 0, 1, 0, 1, 0, 1>>,
    <<0, 0, 2, 2, 0, 0, 2, 2, 0, 0, 2, 2, 0, 0, 2, 2>>,
    <<0, 1, 2, 3, 0, 1, 2, 3, 0, 1, 2, 3, 0, 1, 2, 3>>,
    <<0, 0, 0, 0, 4, 4, 4, 4, 0, 0, 0, 0, 4, 4, 4, 4>>,
    <<0, 1, 0, 1, 4, 5, 4, 5, 0, 1, 0, 1, 4, 5, 4, 5>>,
    <<0, 0, 2, 2, 4, 4, 6, 6, 0, 0, 2, 2, 4, 4, 6, 6>>,
    <<0, 1, 2, 3, 4, 5, 6, 7, 0, 1, 2, 3, 4, 5, 6, 7>>,
    <<0, 0, 0, 0, 0, 0, 0, 0, 8, 8, 8, 8, 8, 8, 8, 8>>,
    <<0, 1, 0, 1, 0, 1, 0, 1, 8, 9, 8, 9, 8, 9, 8, 9>>,
    <<0, 0, 2, 2, 0, 0, 2, 2, 8, 8, 10, 10, 8, 8, 10, 10>>,
    <<0, 1, 2, 3, 0, 1, 2, 3, 8, 9, 10, 11, 8, 9, 10, 11>>,
    <<0, 0, 0, 0, 4, 4, 4, 4, 8, 8, 8, 8, 12, 12, 12, 12>>,
    <<0, 1, 0, 1, 4, 5, 4, 5, 8, 9, 8, 9, 12, 13, 12, 13>>,
    <<0, 0, 2, 2, 4, 4, 6, 6, 8, 8, 10, 10, 12, 12, 14, 14>>,
    <<0, 1, 2, 3, 4, 5, 6, 7, 8, 9, 10, 11, 12, 13, 14, 15>> >>

Nibbles(t, a, b) ==
    t[(a % 16) + 1][(b % 16) + 1]
  + 16 * t[((a \div 16) % 16) + 1][((b \div 16) % 16) + 1]
  + 256 * t[((a \div 256) % 16) + 1][((b \div 256) % 16) + 1]
  + 4096 * t[(a \div 4096) + 1][(b \div 4096) + 1]

WXor(x, y) == << Nibbles(XorNibble, x[1], y[1]), Nibbles(XorNibble, x[2], y[2]) >>
WAnd(x, y) == << Nibbles(AndNibble, x[1], y[1]), Nibbles(AndNibble, x[2], y[2]) >>
WNot(x) == << 65535 - x[1], 65535 - x[2] >>
WAdd(x, y) ==
  LET lo == x[2] + y[2]
  IN  << (x[1] + y[1] + (lo \div 65536)) % 65536, lo % 65536 >>

RotR16(x, n) ==
  LET p == 2^n
      q == 2^(16 - n)
  IN  << (x[1] \div p) + (x[2] % p) * q, (x[2] \div p) + (x[1] % p) * q >>
RotR(x, n) == IF n >= 16 THEN RotR16(<< x[2], x[1] >>, n - 16) ELSE RotR16(x, n)
ShR(x, n) ==
  LET p == 2^n
      q == 2^(16 - n)
  IN  << x[1] \div p, (x[2] \div p) + (x[1] % p) * q >>

Ch(e, f, g) == WXor(WAnd(e, f), WAnd(WNot(e), g))
Maj(a, b, c) == WXor(WXor(WAnd(a, b), WAnd(a, c)), WAnd(b, c))
BigSigma0(a) == WXor(WXor(RotR(a, 2), RotR(a, 13)), RotR(a, 22))
BigSigma1(e) == WXor(WXor(RotR(e, 6), RotR(e, 11)), RotR(e, 25))
SmallSigma0(x) == WXor(WXor(RotR(x, 7), RotR(x, 18)), ShR(x, 3))
SmallSigma1(x) == WXor(WXor(RotR(x, 17), RotR(x, 19)), ShR(x, 10))

(* The message schedule: words 17..64 from the 16 words of the block.      *)
RECURSIVE Schedule(_, _)
Schedule(w, t) ==
  IF t > 64 THEN w
  ELSE LET nw == WAdd(WAdd(SmallSigma1(w[t - 2]), w[t - 7]),
                     WAdd(SmallSigma0(w[t - 15]), w[t - 16]))
       IN  IF nw[1] >= 0 THEN Schedule(Append(w, nw), t + 1) ELSE w

(* The 64 rounds over the working variables a..h, held in s[1]..s[8].      *)
RECURSIVE Rounds(_, _, _)
Rounds(s, w, t) ==
  IF t > 64 THEN s
  ELSE LET t1 == WAdd(WAdd(WAdd(s[8], BigSigma1(s[5])), WAdd(Ch(s[5], s[6], s[7]), SHA256_K[t])), w[t])
           t2 == WAdd(BigSigma0(s[1]), Maj(s[1], s[2], s[3]))
           ns == << WAdd(t1, t2), s[1], s[2], s[3], WAdd(s[4], t1), s[5], s[6], s[7] >>
       IN  IF ns[1][1] >= 0 THEN Rounds(ns, w, t + 1) ELSE s

AddState(h, s) ==
  << WAdd(h[1], s[1]), WAdd(h[2], s[2]), WAdd(h[3], s[3]), WAdd(h[4], s[4]),
     WAdd(h[5], s[5]), WAdd(h[6], s[6]), WAdd(h[7], s[7]), WAdd(h[8], s[8]) >>

Compress(h, block) == AddState(h, Rounds(h, Schedule(block, 17), 1))

RECURSIVE Zeros(_)
Zeros(n) == IF n = 0 THEN << >> ELSE << 0 >> \o Zeros(n - 1)

Pad(bytes) ==
  LET n == Len(bytes)
      z == (119 - (n % 64)) % 64
      bits == 8 * n
  IN  bytes \o << 128 >> \o Zeros(z) \o << 0, 0, 0, 0, 0, 0, (bits \div 256) % 256, bits % 256 >>

BlockWords(p, b) ==
  [i \in 1..16 |->
     LET o == 64 * (b - 1) + 4 * (i - 1)
     IN  << p[o + 1] * 256 + p[o + 2], p[o + 3] * 256 + p[o + 4] >>]

RECURSIVE Blocks(_, _, _)
Blocks(h, p, b) ==
  IF 64 * (b - 1) >= Len(p) THEN h
  ELSE Blocks(Compress(h, BlockWords(p, b)), p, b + 1)

HexChar(d) == IF d < 10 THEN 48 + d ELSE 87 + d
HexHalf(v) == << HexChar(v \div 4096), HexChar((v \div 256) % 16), HexChar((v \div 16) % 16), HexChar(v % 16) >>

RECURSIVE HexWords(_, _)
HexWords(h, i) == IF i > 8 THEN << >> ELSE HexHalf(h[i][1]) \o HexHalf(h[i][2]) \o HexWords(h, i + 1)

Sha256Hex(bytes) == HexWords(Blocks(SHA256_H0, Pad(bytes), 1), 1)

-----------------------------------------------------------------------------
(* Python strings and json.dumps.  A str is a name here; its code points   *)
(* are looked up in the table, which lists every string the model uses.    *)

CodePointTable ==
  {<<"model_family", << 109, 111, 100, 101, 108, 95, 102, 97, 109, 105, 108, 121 >> >>,
   <<"params", << 112, 97, 114, 97, 109, 115 >> >>,
   <<"profile_name", << 112, 114, 111, 102, 105, 108, 101, 95, 110, 97, 109, 101 >> >>,
   <<"profile_version", << 112, 114, 111, 102, 105, 108, 101, 95, 118, 101, 114, 115, 105, 111, 110 >> >>,
   <<"logistic_regression", << 108, 111, 103, 105, 115, 116, 105, 99, 95, 114, 101, 103, 114, 101, 115, 115, 105, 111, 110 >> >>,
   <<"random_forest", << 114, 97, 110, 100, 111, 109, 95, 102, 111, 114, 101, 115, 116 >> >>,
   <<"linear_svc", << 108, 105, 110, 101, 97, 114, 95, 115, 118, 99 >> >>,
   <<"default", << 100, 101, 102, 97, 117, 108, 116 >> >>,
   <<"fast", << 102, 97, 115, 116 >> >>,
   <<"thorough", << 116, 104, 111, 114, 111, 117, 103, 104 >> >>,
   <<"nightly", << 110, 105, 103, 104, 116, 108, 121 >> >>,
   <<"", <<  >> >>,
   <<"1.0", << 49, 46, 48 >> >>,
   <<"1.1", << 49, 46, 49 >> >>,
   <<"max_iter", << 109, 97, 120, 95, 105, 116, 101, 114 >> >>,
   <<"n_estimators", << 110, 95, 101, 115, 116, 105, 109, 97, 116, 111, 114, 115 >> >>,
   <<"max_depth", << 109, 97, 120, 95, 100, 101, 112, 116, 104 >> >>,
   <<"C", << 67 >> >>,
   <<"bogus", << 98, 111, 103, 117, 115 >> >>,
   <<"50", << 53, 48 >> >>,
   <<"200", << 50, 48, 48 >> >>,
   <<"abc", << 97, 98, 99 >> >>,
   <<"-1", << 45, 49 >> >>,
   <<"0.5", << 48, 46, 53 >> >> }

CodePoints(str) == (CHOOSE row \in CodePointTable : row[1] = str)[2]

(* Python's str comparison: lexicographic by code point.                   *)
RECURSIVE SeqLess(_, _)
SeqLess(u, w) ==
  IF w = << >> THEN FALSE
  ELSE IF u = << >> THEN TRUE
  ELSE IF u[1] # w[1] THEN u[1] < w[1]
  ELSE SeqLess(Tail(u), Tail(w))

StrLess(s1, s2) == SeqLess(CodePoints(s1), CodePoints(s2))

(* An insertion-ordered dict is the sequence of its << key, value >>       *)
(* items; keys are unique.                                                 *)
Dict(items) == [t |-> "dict", kv |-> items]
dict_keys(items) == { items[i][1] : i \in 1..Len(items) }
dict_get(items, key) == items[CHOOSE i \in 1..Len(items) : items[i][1] = key][2]
dict_set(items, key, value) ==
  IF key \in dict_keys(items)
    THEN [i \in 1..Len(items) |-> IF items[i][1] = key THEN << key, value >> ELSE items[i]]
    ELSE Append(items, << key, value >>)
dict_del(items, key) ==
  SelectSeq(items, LAMBDA item : item[1] # key)

(* sorted(d.items()): ascending by key.                                    *)
RECURSIVE sorted_items(_)
sorted_items(items) ==
  IF items = << >> THEN << >>
  ELSE LET first == CHOOSE i \in 1..Len(items) :
                      \A j \in 1..Len(items) : ~StrLess(items[j][1], items[i][1])
       IN  << items[first] >> \o sorted_items(dict_del(items, items[first][1]))

RECURSIVE Decimal(_)
Decimal(n) == IF n < 10 THEN << 48 + n >> ELSE Decimal(n \div 10) \o << 48 + (n % 10) >>

(* json.dumps of one character with ensure_ascii: quote and backslash are  *)
(* escaped, everything outside space..~ becomes \uXXXX.                    *)
EscapeChar(c) ==
  IF c = 34 THEN << 92, 34 >>
  ELSE IF c = 92 THEN << 92, 92 >>
  ELSE IF c = 10 THEN << 92, 110 >>
  ELSE IF c = 13 THEN << 92, 114 >>
  ELSE IF c = 9 THEN << 92, 116 >>
  ELSE IF c = 8 THEN << 92, 98 >>
  ELSE IF c = 12 THEN << 92, 102 >>
  ELSE IF c < 32 \/ c > 126 THEN << 92, 117 >> \o HexHalf(c)
  ELSE << c >>

RECURSIVE EscapeChars(_)
EscapeChars(cs) == IF cs = << >> THEN << >> ELSE EscapeChar(cs[1]) \o EscapeChars(Tail(cs))

json_str(str) == << 34 >> \o EscapeChars(CodePoints(str)) \o << 34 >>

(* json.dumps(v, sort_keys=True, separators=(",", ":")).encode("utf-8"):   *)
(* the output is ASCII, so the bytes are the code points.                  *)
RECURSIVE json_dumps(_)
RECURSIVE json_items(_)
json_items(items) ==
  IF items = << >> THEN << >>
  ELSE json_str(items[1][1]) \o << 58 >> \o json_dumps(items[1][2])
       \o (IF Len(items) > 1 THEN << 44 >> ELSE << >>) \o json_items(Tail(items))
json_dumps(v) ==
  CASE v.t = "str" -> json_str(v.s)
    [] v.t = "int" -> IF v.i < 0 THEN << 45 >> \o Decimal(0 - v.i) ELSE Decimal(v.i)
    [] v.t = "bool" -> IF v.b THEN << 116, 114, 117, 101 >> ELSE << 102, 97, 108, 115, 101 >>
    [] v.t = "None" -> << 110, 117, 108, 108 >>
    [] v.t = "dict" -> << 123 >> \o json_items(sorted_items(v.kv)) \o << 125 >>

-----------------------------------------------------------------------------
(* profiles.py: the registry, the expansion hash, expand_profile.          *)

(* A Python object that can be shared: id tells two dicts with equal       *)
(* items apart.                                                            *)
Obj(id, items) == [id |-> id, kv |-> items]

Profile(name, version, model_family, params, description) ==
  [name |-> name, version |-> version, model_family |-> model_family,
   params |-> params, description |-> description]

(* The PROFILES dict as the module creates it.                             *)
ProfileRegistry ==
  << << "default",
        Profile("default", "1.0", "logistic_regression", Obj(1, << >>),
                "Default settings, uses model defaults") >>,
     << "fast",
        Profile("fast", "1.0", "logistic_regression",
                Obj(2, << << "max_iter", PyInt(50) >> >>),
                "Fast training with reduced iterations") >>,
     << "thorough",
        Profile("thorough", "1.0", "random_forest",
                Obj(3, << << "n_estimators", PyInt(200) >>, << "max_depth", PyInt(10) >> >>),
                "Thorough training with Random Forest ensemble") >> >>

(* A profile whatever name was asked for: the first one of the registry.   *)
get_profile_first(name) ==
  IF name \notin dict_keys(PROFILES)
    THEN [raised |-> "UnknownProfileError", value |-> None]
    ELSE [raised |-> "none", value |-> PROFILES[1][2]]

get_profile(name) ==
  IF name \notin dict_keys(PROFILES)
    THEN [raised |-> "UnknownProfileError", value |-> None]
    ELSE [raised |-> "none", value |-> dict_get(PROFILES, name)]

(* A canonical dict that leaves the profile version out.                   *)
canonical_unversioned(profile_name, profile_version, model_family, params) ==
  Dict(<< << "model_family", PyStr(model_family) >>,
          << "params", IF params # << >> THEN Dict(sorted_items(params)) ELSE Dict(<< >>) >>,
          << "profile_name", PyStr(profile_name) >> >>)

(* The dict _compute_expansion_hash serialises.                            *)
canonical(profile_name, profile_version, model_family, params) ==
  Dict(<< << "model_family", PyStr(model_family) >>,
          << "params", IF params # << >> THEN Dict(sorted_items(params)) ELSE Dict(<< >>) >>,
          << "profile_name", PyStr(profile_name) >>,
          << "profile_version", PyStr(profile_version) >> >>)

(* The arguments the hash is applied to: every combination of two names,   *)
(* two versions, two families and two params dicts that hold the same      *)
(* items in a different insertion order, and for one name, version and     *)
(* family three more params dicts: empty, an int value, and the same       *)
(* digits as a str.                                                        *)
HashNames == {"fast", "thorough"}
HashVersions == {"1.0", "1.1"}
HashFamilies == {"logistic_regression", "random_forest"}
HashParams ==
  { << << "n_estimators", PyInt(200) >>, << "max_depth", PyInt(10) >> >>,
    << << "max_depth", PyInt(10) >>, << "n_estimators", PyInt(200) >> >> }
HashParamsMore ==
  { << >>,
    << << "max_iter", PyInt(50) >> >>,
    << << "max_iter", PyStr("50") >> >> }
HashArgs ==
  [profile_name : HashNames, profile_version : HashVersions,
   model_family : HashFamilies, params : HashParams]
  \cup
  [profile_name : {"fast"}, profile_version : {"1.0"},
   model_family : {"logistic_regression"}, params : HashParamsMore]

(* json.dumps(...).encode("utf-8") hashed with hashlib.sha256.             *)
expansion_digest(profile_name, profile_version, model_family, params) ==
  Sha256Hex(json_dumps(canonical(profile_name, profile_version, model_family, params)))

(* The digests of the arguments above and of the registry's profiles,      *)
(* computed once; any other arguments are hashed when they are met.        *)
DigestTable ==
  { << a, expansion_digest(a.profile_name, a.profile_version, a.model_family, a.params) >> :
      a \in HashArgs \cup
            { [profile_name |-> ProfileRegistry[i][2].name,
               profile_version |-> ProfileRegistry[i][2].version,
               model_family |-> ProfileRegistry[i][2].model_family,
               params |-> ProfileRegistry[i][2].params.kv] : i \in 1..Len(ProfileRegistry) } }

_compute_expansion_hash(profile_name, profile_version, model_family, params) ==
  LET a == [profile_name |-> profile_name, profile_version |-> profile_version,
            model_family |-> model_family, params |-> params]
  IN  IF \E row \in DigestTable : row[1] = a
        THEN (CHOOSE row \in DigestTable : row[1] = a)[2]
        ELSE expansion_digest(profile_name, profile_version, model_family, params)

(* A str given by its code points, as hexdigest() returns it.              *)
PyStrOf(cps) == [t |-> "str", cps |-> cps]

(* An expansion that forgets the version.                                  *)
ExpandedProfile_unversioned(profile_name, profile_version, model_family, params, hash_value) ==
  [profile_name |-> PyStr(profile_name), profile_version |-> None,
   model_family |-> model_family, params |-> params,
   expanded_parameters_hash |-> PyStrOf(hash_value)]

ExpandedProfile(profile_name, profile_version, model_family, params, hash_value) ==
  [profile_name |-> PyStr(profile_name), profile_version |-> PyStr(profile_version),
   model_family |-> model_family, params |-> params,
   expanded_parameters_hash |-> PyStrOf(hash_value)]

(* dict(d): a new object with the same items.                              *)
dict_copy(obj) == Obj(Len(ProfileRegistry) + Len(expanded) + 1, obj.kv)

(* expand_profile once get_profile has returned the profile: copy the      *)
(* params, hash, build the result.                                         *)
expand_found(profile, params) ==
  [raised |-> "none",
   value |-> ExpandedProfile(profile.name, profile.version, profile.model_family, params,
                             _compute_expansion_hash(profile.name, profile.version,
                                                     profile.model_family, params.kv))]

expand_got(got) ==
  IF got.raised # "none" THEN got ELSE expand_found(got.value, dict_copy(got.value.params))

expand_profile(name) == expand_got(get_profile(name))

-----------------------------------------------------------------------------
(* resolver.py.                                                            *)

(* Python truthiness, as in "if profile_name:" and "if cli_params:".       *)
truthy(v) ==
  CASE v.t = "None" -> FALSE
    [] v.t = "str" -> v.s # ""
    [] v.t = "dict" -> v.kv # << >>
    [] v.t = "list" -> v.l # << >>
    [] v.t = "int" -> v.i # 0
    [] v.t = "bool" -> v.b

ParamSource(name, value, source) == [name |-> name, value |-> value, source |-> source]

(* A loop that keeps the value a name already has.                         *)
RECURSIVE assign_params_keep(_, _, _)
assign_params_keep(acc, items, source) ==
  IF items = << >> THEN acc
  ELSE LET name == items[1][1]
           value == items[1][2]
       IN  assign_params_keep(
             IF name \in dict_keys(acc.final_params) THEN acc
             ELSE [final_params |-> dict_set(acc.final_params, name, value),
                   param_sources |-> dict_set(acc.param_sources, name,
                                              ParamSource(name, value, source))],
             Tail(items), source)

(* A loop that records the source of a name only the first time.           *)
RECURSIVE assign_params_stale(_, _, _)
assign_params_stale(acc, items, source) ==
  IF items = << >> THEN acc
  ELSE LET name == items[1][1]
           value == items[1][2]
       IN  assign_params_stale(
             [final_params |-> dict_set(acc.final_params, name, value),
              param_sources |-> IF name \in dict_keys(acc.param_sources)
                                  THEN acc.param_sources
                                  ELSE dict_set(acc.param_sources, name,
                                                ParamSource(name, value, source))],
             Tail(items), source)

(* for name, value in items: final_params[name] = value;                   *)
(*                           param_sources[name] = ParamSource(...)        *)
RECURSIVE assign_params(_, _, _)
assign_params(acc, items, source) ==
  IF items = << >> THEN acc
  ELSE LET name == items[1][1]
           value == items[1][2]
       IN  assign_params(
             [final_params |-> dict_set(acc.final_params, name, value),
              param_sources |-> dict_set(acc.param_sources, name,
                                         ParamSource(name, value, source))],
             Tail(items), source)

ResolvedConfig(model_family, hyperparameters, param_sources, profile_name, profile_version, expanded_parameters_hash) ==
  [model_family |-> model_family, hyperparameters |-> hyperparameters,
   param_sources |-> param_sources, profile_name |-> profile_name,
   profile_version |-> profile_version,
   expanded_parameters_hash |-> expanded_parameters_hash]

has_profile(config) == config.profile_name # None

(* A resolver that hashes the parameters it ends up with, the overrides    *)
(* of the command line among them.                                         *)
resolve_expanded_rehashing(model_family, cli_params, with_profile, outcome) ==
  IF outcome.raised # "none" THEN [raised |-> outcome.raised, value |-> None]
  ELSE LET step0 == [final_params |-> << >>, param_sources |-> << >>]
           step1 == IF with_profile
                      THEN assign_params(step0, outcome.value.params.kv, "profile")
                      ELSE step0
           step2 == IF truthy(cli_params)
                      THEN assign_params(step1, cli_params.kv, "cli")
                      ELSE step1
       IN  [raised |-> "none",
            value |-> ResolvedConfig(
              IF with_profile THEN outcome.value.model_family ELSE model_family,
              step2.final_params,
              step2.param_sources,
              IF with_profile THEN outcome.value.profile_name ELSE None,
              IF with_profile THEN outcome.value.profile_version ELSE None,
              IF with_profile
                THEN PyStrOf(_compute_expansion_hash(
                       outcome.value.profile_name.s, outcome.value.profile_version.s,
                       outcome.value.model_family, step2.final_params))
                ELSE None)]

(* Steps 1 and 2 of resolve_config and its return, given whether a        *)
(* profile is expanded and how the expansion ended.                        *)
resolve_expanded(model_family, cli_params, with_profile, outcome) ==
  IF outcome.raised # "none" THEN [raised |-> outcome.raised, value |-> None]
  ELSE LET step0 == [final_params |-> << >>, param_sources |-> << >>]
           step1 == IF with_profile
                      THEN assign_params(step0, outcome.value.params.kv, "profile")
                      ELSE step0
           step2 == IF truthy(cli_params)
                      THEN assign_params(step1, cli_params.kv, "cli")
                      ELSE step1
       IN  [raised |-> "none",
            value |-> ResolvedConfig(
              IF with_profile THEN outcome.value.model_family ELSE model_family,
              step2.final_params,
              step2.param_sources,
              IF with_profile THEN outcome.value.profile_name ELSE None,
              IF with_profile THEN outcome.value.profile_version ELSE None,
              IF with_profile THEN outcome.value.expanded_parameters_hash ELSE None)]

resolve_config(model_family, cli_params, profile_name) ==
  resolve_expanded(model_family, cli_params, truthy(profile_name),
                   IF truthy(profile_name) THEN expand_profile(profile_name.s)
                   ELSE [raised |-> "none", value |-> None])

-----------------------------------------------------------------------------
(* hyperparams.py.  A raw value is a string from the command line; the     *)
(* parsers work on its characters.                                         *)

RawValueTable ==
  { <<"", <<  >> >>,
   <<"abc", << 97, 98, 99 >> >>,
   <<"0", << 48 >> >>,
   <<"1", << 49 >> >>,
   <<"2", << 50 >> >>,
   <<"-1", << 45, 49 >> >>,
   <<"50", << 53, 48 >> >>,
   <<"0.5", << 48, 46, 53 >> >>,
   <<"-0.0", << 45, 48, 46, 48 >> >>,
   <<"1.5", << 49, 46, 53 >> >>,
   <<"nan", << 110, 97, 110 >> >>,
   <<"inf", << 105, 110, 102 >> >>,
   <<"-inf", << 45, 105, 110, 102 >> >>,
   <<"infinity", << 105, 110, 102, 105, 110, 105, 116, 121 >> >>,
   <<"1e-400", << 49, 101, 45, 52, 48, 48 >> >>,
   <<"1e400", << 49, 101, 52, 48, 48 >> >>,
   <<"None", << 78, 111, 110, 101 >> >>,
   <<"none", << 110, 111, 110, 101 >> >>,
   <<"true", << 116, 114, 117, 101 >> >>,
   <<"yes", << 121, 101, 115 >> >>,
   <<"false", << 102, 97, 108, 115, 101 >> >>,
   <<"no", << 110, 111 >> >>,
   <<"No", << 78, 111 >> >>,
   <<" 7", << 32, 55 >> >>,
   <<"1_0", << 49, 95, 48 >> >>,
   <<"1__0", << 49, 95, 95, 48 >> >>,
   <<"+3", << 43, 51 >> >>,
   <<"lbfgs", << 108, 98, 102, 103, 115 >> >> }

Chars(str) == (CHOOSE row \in CodePointTable \cup RawValueTable : row[1] = str)[2]

(* A Python float as far as the parsers and validators can tell floats     *)
(* apart: nan, an infinity, or sign * digits * 10^exp with the digits      *)
(* free of trailing zeros (zero is digits = 0, exp = 0, with its sign).    *)
PyFloat(x) == [t |-> "float", x |-> x]
NaN == [k |-> "nan", sign |-> 1, digits |-> 0, exp |-> 0]
Infinity(sign) == [k |-> "inf", sign |-> sign, digits |-> 0, exp |-> 0]
Finite(sign, digits, exp) == [k |-> "finite", sign |-> sign, digits |-> digits, exp |-> exp]

Whitespace == {9, 10, 11, 12, 13, 28, 29, 30, 31, 32}
IsDigit(c) == c \in 48..57

(* str.lower() and str.strip() on ASCII.                                   *)
lower(cs) == [i \in DOMAIN cs |-> IF cs[i] \in 65..90 THEN cs[i] + 32 ELSE cs[i]]

RECURSIVE lstrip(_)
lstrip(cs) == IF cs # << >> /\ cs[1] \in Whitespace THEN lstrip(Tail(cs)) ELSE cs

RECURSIVE rstrip(_)
rstrip(cs) ==
  IF cs # << >> /\ cs[Len(cs)] \in Whitespace THEN rstrip(SubSeq(cs, 1, Len(cs) - 1)) ELSE cs

strip(cs) == rstrip(lstrip(cs))

(* Digits with single underscores between them, as int() and float()       *)
(* accept them.                                                            *)
DigitRun(cs) ==
  /\ cs # << >>
  /\ IsDigit(cs[1]) /\ IsDigit(cs[Len(cs)])
  /\ \A i \in DOMAIN cs : IsDigit(cs[i]) \/ cs[i] = 95
  /\ \A i \in 1..(Len(cs) - 1) : ~(cs[i] = 95 /\ cs[i + 1] = 95)

RECURSIVE DigitsValue(_, _)
DigitsValue(cs, acc) ==
  IF cs = << >> THEN acc
  ELSE DigitsValue(Tail(cs), IF cs[1] = 95 THEN acc ELSE acc * 10 + (cs[1] - 48))

CountDigits(cs) == Cardinality({ i \in DOMAIN cs : IsDigit(cs[i]) })

Signed(cs) == cs # << >> /\ cs[1] \in {43, 45}
SignOf(cs) == IF cs # << >> /\ cs[1] = 45 THEN -1 ELSE 1
Unsigned(cs) == IF Signed(cs) THEN Tail(cs) ELSE cs

IndexOf(cs, c) ==
  IF \E i \in DOMAIN cs : cs[i] = c
    THEN CHOOSE i \in DOMAIN cs : cs[i] = c /\ \A j \in 1..(i - 1) : cs[j] # c
    ELSE 0

Parsed(value) == [raised |-> "none", value |-> value]
ParseFails == [raised |-> "ValueError", value |-> None]

(* int(value): whitespace stripped, an optional sign, a run of digits.     *)
_parse_int(cs) ==
  LET body == Unsigned(strip(cs))
  IN  IF DigitRun(body)
        THEN Parsed(PyInt(SignOf(strip(cs)) * DigitsValue(body, 0)))
        ELSE ParseFails

RECURSIVE TrimZeros(_, _)
TrimZeros(digits, exp) ==
  IF digits # 0 /\ digits % 10 = 0 THEN TrimZeros(digits \div 10, exp + 1)
  ELSE << digits, exp >>

RECURSIVE DecimalLength(_)
DecimalLength(n) == IF n < 10 THEN 1 ELSE 1 + DecimalLength(n \div 10)

(* The double nearest to sign * digits * 10^exp: a magnitude of 10^309 or  *)
(* more is an infinity, one below 10^-324 is zero.  (The exact limits lie  *)
(* within one decade of these; the raw values of the model keep away from  *)
(* them.)                                                                  *)
ToDouble(sign, digits, exp) ==
  LET n == TrimZeros(digits, exp)
      magnitude == DecimalLength(n[1]) + n[2]
  IN  IF n[1] = 0 THEN Finite(sign, 0, 0)
      ELSE IF magnitude > 309 THEN Infinity(sign)
      ELSE IF magnitude < -323 THEN Finite(sign, 0, 0)
      ELSE Finite(sign, n[1], n[2])

(* The mantissa of a decimal literal: digits, optionally a point and more  *)
(* digits, at least one digit in all.                                      *)
MantissaOk(cs) ==
  LET dot == IndexOf(cs, 46)
      whole == SubSeq(cs, 1, dot - 1)
      frac == SubSeq(cs, dot + 1, Len(cs))
  IN  IF dot = 0 THEN DigitRun(cs)
      ELSE /\ whole = << >> \/ DigitRun(whole)
           /\ frac = << >> \/ DigitRun(frac)
           /\ whole # << >> \/ frac # << >>

MantissaDigits(cs) == DigitsValue(SelectSeq(cs, IsDigit), 0)
FractionLength(cs) ==
  IF IndexOf(cs, 46) = 0 THEN 0 ELSE CountDigits(SubSeq(cs, IndexOf(cs, 46) + 1, Len(cs)))

(* float(value): whitespace stripped, case ignored, an optional sign, then *)
(* inf, infinity, nan or a decimal literal with an optional exponent.      *)
_parse_float(cs) ==
  LET text == lower(strip(cs))
      sign == SignOf(text)
      body == Unsigned(text)
      e == IndexOf(body, 101)
      mantissa == IF e = 0 THEN body ELSE SubSeq(body, 1, e - 1)
      exponent == IF e = 0 THEN << >> ELSE SubSeq(body, e + 1, Len(body))
  IN  IF body \in {Chars("inf"), Chars("infinity")} THEN Parsed(PyFloat(Infinity(sign)))
      ELSE IF body = Chars("nan") THEN Parsed(PyFloat(NaN))
      ELSE IF ~MantissaOk(mantissa) THEN ParseFails
      ELSE IF e # 0 /\ ~DigitRun(Unsigned(exponent)) THEN ParseFails
      ELSE Parsed(PyFloat(ToDouble(sign, MantissaDigits(mantissa),
             (IF e = 0 THEN 0 ELSE SignOf(exponent) * DigitsValue(Unsigned(exponent), 0))
               - FractionLength(mantissa))))

_parse_bool(cs) ==
  IF lower(cs) \in {Chars("true"), Chars("1"), Chars("yes")} THEN Parsed(PyBool(TRUE))
  ELSE IF lower(cs) \in {Chars("false"), Chars("0"), Chars("no")} THEN Parsed(PyBool(FALSE))
  ELSE ParseFails

_parse_str(str) == Parsed(PyStr(str))

_parse_int_or_none(cs) ==
  IF lower(cs) = Chars("none") THEN Parsed(None) ELSE _parse_int(cs)

(* "value <= 0" and "value < n" on a float and on an int.  Every           *)
(* comparison with nan is false.                                           *)
FloatLeqZero(x) ==
  CASE x.k = "nan" -> FALSE
    [] x.k = "inf" -> x.sign = -1
    [] OTHER -> x.digits = 0 \/ x.sign = -1

(* The validators: the error message, or None.                             *)
_positive_int(value) == IF value.i <= 0 THEN PyStr("must be > 0") ELSE None
_positive_float(value) == IF FloatLeqZero(value.x) THEN PyStr("must be > 0") ELSE None
_nonnegative_int(value) == IF value.i < 0 THEN PyStr("must be >= 0") ELSE None
_positive_int_or_none(value) ==
  IF value # None /\ value.i < 1 THEN PyStr("must be >= 1 or None") ELSE None
lambda_min_samples_split(value) == IF value.i < 2 THEN PyStr("must be >= 2") ELSE None

ParamSpec(name, type_name, parser, validator) ==
  [name |-> name, type_name |-> type_name, parser |-> parser, validator |-> validator]

LOGISTIC_REGRESSION_PARAMS ==
  << << "C", ParamSpec("C", "float", "_parse_float", "_positive_float") >>,
     << "max_iter", ParamSpec("max_iter", "int", "_parse_int", "_positive_int") >>,
     << "solver", ParamSpec("solver", "str", "_parse_str", "None") >>,
     << "warm_start", ParamSpec("warm_start", "bool", "_parse_bool", "None") >> >>

RANDOM_FOREST_PARAMS ==
  << << "n_estimators", ParamSpec("n_estimators", "int", "_parse_int", "_positive_int") >>,
     << "max_depth",
        ParamSpec("max_depth", "int or None", "_parse_int_or_none", "_positive_int_or_none") >>,
     << "min_samples_split",
        ParamSpec("min_samples_split", "int", "_parse_int", "lambda") >>,
     << "min_samples_leaf",
        ParamSpec("min_samples_leaf", "int", "_parse_int", "_positive_int") >> >>

LINEAR_SVC_PARAMS ==
  << << "C", ParamSpec("C", "float", "_parse_float", "_positive_float") >>,
     << "max_iter", ParamSpec("max_iter", "int", "_parse_int", "_positive_int") >> >>

MODEL_PARAMS ==
  << << "logistic_regression", LOGISTIC_REGRESSION_PARAMS >>,
     << "random_forest", RANDOM_FOREST_PARAMS >>,
     << "linear_svc", LINEAR_SVC_PARAMS >> >>

(* spec.parser(value_str) and spec.validator(typed_value).                 *)
spec_parser(spec, value_str) ==
  CASE spec.parser = "_parse_int" -> _parse_int(Chars(value_str))
    [] spec.parser = "_parse_float" -> _parse_float(Chars(value_str))
    [] spec.parser = "_parse_bool" -> _parse_bool(Chars(value_str))
    [] spec.parser = "_parse_int_or_none" -> _parse_int_or_none(Chars(value_str))
    [] OTHER -> _parse_str(value_str)

spec_validator(spec, typed_value) ==
  CASE spec.validator = "_positive_int" -> _positive_int(typed_value)
    [] spec.validator = "_positive_float" -> _positive_float(typed_value)
    [] spec.validator = "_positive_int_or_none" -> _positive_int_or_none(typed_value)
    [] spec.validator = "lambda" -> lambda_min_samples_split(typed_value)
    [] OTHER -> None

Raised(exc, param_name) == [raised |-> exc, value |-> None, param_name |-> param_name]
Converted(value) == [raised |-> "none", value |-> value, param_name |-> "-"]

(* One turn of the loop of validate_and_convert: the typed value of the    *)
(* pair, or the exception.                                                 *)
check_pair(model_specs, name, value_str) ==
  IF name \notin dict_keys(model_specs) THEN Raised("UnknownParamError", name)
  ELSE LET spec == dict_get(model_specs, name)
           parsed == spec_parser(spec, value_str)
       IN  IF parsed.raised # "none" THEN Raised("TypeParseError", name)
           ELSE IF spec.validator # "None" /\ truthy(spec_validator(spec, parsed.value))
             THEN Raised("RangeError", name)
           ELSE Converted(parsed.value)

(* A loop that leaves an invalid pair out and goes on.                     *)
RECURSIVE convert_pairs_skipping(_, _, _)
convert_pairs_skipping(model_specs, items, result) ==
  IF items = << >> THEN Converted(Dict(result))
  ELSE LET c == check_pair(model_specs, items[1][1], items[1][2].s)
       IN  convert_pairs_skipping(model_specs, Tail(items),
             IF c.raised # "none" THEN result ELSE dict_set(result, items[1][1], c.value))

(* for name, value_str in params.items(): ... result[name] = typed_value   *)
RECURSIVE convert_pairs(_, _, _)
convert_pairs(model_specs, items, result) ==
  IF items = << >> THEN Converted(Dict(result))
  ELSE LET c == check_pair(model_specs, items[1][1], items[1][2].s)
       IN  IF c.raised # "none" THEN c
           ELSE convert_pairs(model_specs, Tail(items), dict_set(result, items[1][1], c.value))

validate_and_convert(model_family, params) ==
  IF model_family \notin dict_keys(MODEL_PARAMS) THEN Raised("ValueError", "-")
  ELSE convert_pairs(dict_get(MODEL_PARAMS, model_family), params.kv, << >>)

-----------------------------------------------------------------------------
(* The provenance calls of a process, step by step: a process may stop     *)
(* between any two steps that touch the directory.                         *)

Procs == {"w1", "w2"}
Writer == "w1"

Idle == [name |-> "idle", pc |-> "-", args |-> None, index |-> None]
NoReturn == [call |-> "-", raised |-> "none", value |-> None]
Returned(call, raised, value) == [call |-> call, raised |-> raised, value |-> value]
ReturnedFrom(call, r) == Returned(call, r.raised, r.value)

EmptyDir == [dir |-> FALSE, index |-> NoFile, tmp |-> NoFile, backups |-> << >>]

ProvenanceInit ==
  /\ fs \in {EmptyDir, [EmptyDir EXCEPT !.dir = TRUE]}
  /\ now = 0
  /\ platform \in {"posix", "windows"}
  /\ op = [p \in Procs |-> Idle]
  /\ ret = [p \in Procs |-> NoReturn]
  /\ calls = << >>
  /\ faults = 0

CallAppend(p, a) ==
  /\ op[p].name = "idle"
  /\ Len(calls) < MaxRuns
  /\ op' = [op EXCEPT ![p] = [name |-> "append", pc |-> "load", args |-> a, index |-> None]]
  /\ UNCHANGED << fs, now, platform, ret, calls, faults >>
  /\ UNCHANGED << registryVars, resolverVars, callVars, collectorVars, runVars >>

AppendLoad(p) ==
  /\ op[p].pc = "load"
  /\ LET ld == load_index(fs, now, platform)
         ap == runs_append(ld.value, new_entry(op[p].args))
     IN  /\ fs' = ld.fs
         /\ IF ld.raised # "none"
              THEN /\ op' = [op EXCEPT ![p] = Idle]
                   /\ ret' = [ret EXCEPT ![p] = Returned("append_run_to_index", ld.raised, None)]
            ELSE IF ap.raised # "none"
              THEN /\ op' = [op EXCEPT ![p] = Idle]
                   /\ ret' = [ret EXCEPT ![p] = Returned("append_run_to_index", ap.raised, None)]
            ELSE /\ op' = [op EXCEPT ![p] = [@ EXCEPT !.pc = "mkdir", !.index = ap.value]]
                 /\ ret' = ret
  /\ UNCHANGED << now, platform, calls, faults >>
  /\ UNCHANGED << registryVars, resolverVars, callVars, collectorVars, runVars >>

SaveMkdir(p) ==
  /\ op[p].pc = "mkdir"
  /\ fs' = fs_mkdir(fs)
  /\ op' = [op EXCEPT ![p] = [@ EXCEPT !.pc = "open"]]
  /\ UNCHANGED << now, platform, ret, calls, faults >>
  /\ UNCHANGED << registryVars, resolverVars, callVars, collectorVars, runVars >>

SaveOpen(p) ==
  /\ op[p].pc = "open"
  /\ fs' = fs_open_w(fs, op[p].index)
  /\ op' = [op EXCEPT ![p] = [@ EXCEPT !.pc = "dump"]]
  /\ UNCHANGED << now, platform, ret, calls, faults >>
  /\ UNCHANGED << registryVars, resolverVars, callVars, collectorVars, runVars >>

SaveOpenFails(p) ==
  /\ op[p].pc = "open"
  /\ op' = [op EXCEPT ![p] = Idle]
  /\ ret' = [ret EXCEPT ![p] = Returned("append_run_to_index", "OSError", None)]
  /\ UNCHANGED << fs, now, platform, calls, faults >>
  /\ UNCHANGED << registryVars, resolverVars, callVars, collectorVars, runVars >>

SaveDump(p) ==
  /\ op[p].pc = "dump"
  /\ fs.tmp.k = "text"
  /\ \/ /\ fs.tmp.upto = "empty"
        /\ fs' = fs_write(fs, "partial")
        /\ op' = op
     \/ /\ fs.tmp.upto = "partial"
        /\ fs' = fs_write(fs, "body")
        /\ op' = [op EXCEPT ![p] = [@ EXCEPT !.pc = "newline"]]
  /\ UNCHANGED << now, platform, ret, calls, faults >>
  /\ UNCHANGED << registryVars, resolverVars, callVars, collectorVars, runVars >>

SaveNewline(p) ==
  /\ op[p].pc = "newline"
  /\ fs' = fs_write(fs, "full")
  /\ op' = [op EXCEPT ![p] = [@ EXCEPT !.pc = "rename"]]
  /\ UNCHANGED << now, platform, ret, calls, faults >>
  /\ UNCHANGED << registryVars, resolverVars, callVars, collectorVars, runVars >>

SaveRename(p) ==
  /\ op[p].pc = "rename"
  /\ fs' = fs_replace(fs)
  /\ op' = [op EXCEPT ![p] = Idle]
  /\ ret' = [ret EXCEPT ![p] = Returned("append_run_to_index", "none", None)]
  /\ calls' = Append(calls, op[p].args)
  /\ UNCHANGED << now, platform, faults >>
  /\ UNCHANGED << registryVars, resolverVars, callVars, collectorVars, runVars >>

CallLoad(p) ==
  /\ op[p].name = "idle"
  /\ LET ld == load_index(fs, now, platform)
     IN  /\ fs' = ld.fs
         /\ ret' = [ret EXCEPT ![p] = Returned("load_index", ld.raised, ld.value)]
  /\ UNCHANGED << now, platform, op, calls, faults >>
  /\ UNCHANGED << registryVars, resolverVars, callVars, collectorVars, runVars >>

(* The process is killed: nothing more is written, what is on disk stays.  *)
Crash(p) ==
  /\ op[p].name # "idle"
  /\ op' = [op EXCEPT ![p] = Idle]
  /\ ret' = [ret EXCEPT ![p] = Returned(op[p].name, "killed", None)]
  /\ UNCHANGED << fs, now, platform, calls, faults >>
  /\ UNCHANGED << registryVars, resolverVars, callVars, collectorVars, runVars >>

Tick ==
  /\ now < MaxTime
  /\ now' = now + 1
  /\ UNCHANGED << fs, platform, op, ret, calls, faults >>
  /\ UNCHANGED << registryVars, resolverVars, callVars, collectorVars, runVars >>

(* Something other than save_index overwrites index.json.                  *)
Corrupt(c) ==
  /\ faults < MaxFaults
  /\ \A p \in Procs : op[p].name = "idle"
  /\ fs' = [fs EXCEPT !.dir = TRUE, !.index = c]
  /\ faults' = faults + 1
  /\ UNCHANGED << now, platform, op, ret, calls >>
  /\ UNCHANGED << registryVars, resolverVars, callVars, collectorVars, runVars >>

SaveSteps(p) ==
  \/ SaveMkdir(p)
  \/ SaveOpen(p)
  \/ SaveDump(p)
  \/ SaveNewline(p)
  \/ SaveRename(p)

(* The rest of the state where a specification leaves it alone.            *)
ProvenanceIdle ==
  /\ fs = EmptyDir
  /\ now = 0
  /\ platform = "posix"
  /\ op = [p \in Procs |-> Idle]
  /\ ret = [p \in Procs |-> NoReturn]
  /\ calls = << >>
  /\ faults = 0

RegistryIdle ==
  /\ PROFILES = ProfileRegistry
  /\ expanded = << >>
  /\ hashed = << >>

ResolverIdle ==
  /\ rcall = None
  /\ rret = NoReturn

RunIdle ==
  /\ run = None
  /\ out = None
  /\ stdout = << >>

CallIdle ==
  /\ fcall = None
  /\ fret = NoReturn

CollectorIdle ==
  /\ collector = None
  /\ lists = << >>
  /\ cret = NoReturn
  /\ added = << >>

Init == ProvenanceInit /\ RegistryIdle /\ ResolverIdle /\ RunIdle /\ CallIdle /\ CollectorIdle

(* One writer, no kill, no I/O error, nobody else touching the directory.  *)
NextSequential ==
  \/ \E a \in RunArgs : CallAppend(Writer, a)
  \/ AppendLoad(Writer)
  \/ SaveSteps(Writer)
  \/ Tick

SpecSequential == Init /\ [][NextSequential]_vars

(* One writer that may be killed, or meet an I/O error, at any step.       *)
NextCrash ==
  \/ \E a \in RunArgs : CallAppend(Writer, a)
  \/ AppendLoad(Writer)
  \/ SaveSteps(Writer)
  \/ SaveOpenFails(Writer)
  \/ Crash(Writer)

SpecCrash == Init /\ [][NextCrash]_vars

(* One writer appending step by step, and a second process that loads the  *)
(* index while the writer is inside save_index.                            *)
Reader == "w2"

SavePcs == {"mkdir", "open", "dump", "newline", "rename"}

LoadDuringSave(p) ==
  /\ op[Writer].pc \in SavePcs
  /\ CallLoad(p)

NextReader ==
  \/ \E a \in RunArgs : CallAppend(Writer, a)
  \/ AppendLoad(Writer)
  \/ SaveSteps(Writer)
  \/ LoadDuringSave(Reader)

SpecReader == Init /\ [][NextReader]_vars

(* Two processes appending to the same directory.  A process loads, and    *)
(* later saves what it loaded with its entry added; each save is taken     *)
(* whole (the two processes would share index.json.tmp inside a save: the  *)
(* interleavings inside of it are left out).                               *)
SaveWhole(p) ==
  /\ op[p].pc = "mkdir"
  /\ LET saved == save_index(fs, op[p].index, TRUE)
     IN  /\ fs' = saved.fs
         /\ ret' = [ret EXCEPT ![p] = Returned("append_run_to_index", saved.raised, None)]
  /\ op' = [op EXCEPT ![p] = Idle]
  /\ calls' = Append(calls, op[p].args)
  /\ UNCHANGED << now, platform, faults >>
  /\ UNCHANGED << registryVars, resolverVars, callVars, collectorVars, runVars >>

NextConcurrent ==
  \E p \in Procs :
    \/ \E a \in RunArgs : CallAppend(p, a)
    \/ AppendLoad(p)
    \/ SaveWhole(p)

SpecConcurrent == Init /\ [][NextConcurrent]_vars

(* Whole calls of one process, with an environment that may overwrite      *)
(* index.json between them and a clock that may or may not have moved on.  *)
AppendRun(p, a, io_ok) ==
  /\ op[p].name = "idle"
  /\ Len(calls) < MaxRuns
  /\ LET r == append_run_to_index(fs, now, platform, a, io_ok)
     IN  /\ fs' = r.fs
         /\ ret' = [ret EXCEPT ![p] = Returned("append_run_to_index", r.raised, None)]
         /\ calls' = IF r.raised = "none" THEN Append(calls, a) ELSE calls
  /\ UNCHANGED << now, platform, op, faults >>
  /\ UNCHANGED << registryVars, resolverVars, callVars, collectorVars, runVars >>

NextRecovery ==
  \/ \E a \in RunArgs, io_ok \in BOOLEAN : AppendRun(Writer, a, io_ok)
  \/ CallLoad(Writer)
  \/ \E c \in ForeignContents : Corrupt(c)
  \/ Tick

SpecRecovery == Init /\ [][NextRecovery]_vars

-----------------------------------------------------------------------------
(* The registry in use: direct calls of the hash, expansions, and a caller *)
(* that changes the params dict of an expansion it was handed.  The hash   *)
(* calls and the expansions do not touch each other's state, so a          *)
(* behaviour makes the ones or the others.                                 *)

MaxHashed == 2       \* _compute_expansion_hash calls per behaviour
MaxExpansions == 2   \* expand_profile calls per behaviour

ExpandNames == {"default", "fast", "thorough", "nightly"}
MutationKeys == {"max_iter", "n_estimators"}
MutationValues == {PyInt(1)}

ComputeHash(a) ==
  /\ Len(hashed) < MaxHashed
  /\ expanded = << >>
  /\ hashed' = Append(hashed,
                 [args |-> a,
                  digest |-> _compute_expansion_hash(a.profile_name, a.profile_version,
                                                     a.model_family, a.params)])
  /\ UNCHANGED << PROFILES, expanded >>
  /\ UNCHANGED << provenanceVars, resolverVars, callVars, collectorVars, runVars >>

Expansion(name, e) == [name |-> name, raised |-> e.raised, value |-> e.value]

Expand(name) ==
  /\ Len(expanded) < MaxExpansions
  /\ hashed = << >>
  /\ expanded' = Append(expanded, Expansion(name, expand_profile(name)))
  /\ UNCHANGED << PROFILES, hashed >>
  /\ UNCHANGED << provenanceVars, resolverVars, callVars, collectorVars, runVars >>

(* expanded[k].params[key] = value, seen by every holder of that dict.     *)
MutateParams(k, key, value) ==
  /\ k \in 1..Len(expanded)
  /\ expanded[k].raised = "none"
  /\ LET id == expanded[k].value.params.id
         seen(o) == IF o.id = id THEN Obj(id, dict_set(o.kv, key, value)) ELSE o
     IN  /\ expanded' = [i \in 1..Len(expanded) |->
                           IF expanded[i].raised = "none"
                             THEN [expanded[i] EXCEPT !.value.params = seen(@)]
                             ELSE expanded[i]]
         /\ PROFILES' = [i \in 1..Len(PROFILES) |->
                           << PROFILES[i][1], [PROFILES[i][2] EXCEPT !.params = seen(@)] >>]
  /\ UNCHANGED hashed
  /\ UNCHANGED << provenanceVars, resolverVars, callVars, collectorVars, runVars >>

NextRegistry ==
  \/ \E a \in HashArgs : ComputeHash(a)
  \/ \E name \in ExpandNames : Expand(name)
  \/ \E k \in 1..MaxExpansions, key \in MutationKeys, value \in MutationValues :
       MutateParams(k, key, value)

InitRegistry == ProvenanceIdle /\ RegistryIdle /\ ResolverIdle /\ RunIdle /\ CallIdle /\ CollectorIdle

SpecRegistry == InitRegistry /\ [][NextRegistry]_vars

-----------------------------------------------------------------------------
(* resolve_config applied to one set of arguments.                         *)

MaxCliParams == 2    \* --param entries of one call

ModelFamilies == {"logistic_regression", "random_forest", "linear_svc"}
ProfileNames ==
  {None, PyStr(""), PyStr("default"), PyStr("fast"), PyStr("thorough"), PyStr("nightly")}
CliNames == {"max_iter", "n_estimators", "bogus"}
CliValues == {PyStr("50"), PyStr("abc"), PyStr("-1")}
CliItems ==
  UNION { { items \in [1..n -> CliNames \X CliValues] :
              \A i, j \in 1..n : items[i][1] = items[j][1] => i = j } :
          n \in 0..MaxCliParams }
CliParams == {None} \cup { Dict(items) : items \in CliItems }
ResolveArgs == [model_family : ModelFamilies, cli_params : CliParams, profile_name : ProfileNames]

ResolverInit ==
  /\ rcall \in ResolveArgs
  /\ rret = NoReturn

Resolve ==
  /\ rcall # None
  /\ rret = NoReturn
  /\ rret' = ReturnedFrom("resolve_config",
                resolve_config(rcall.model_family, rcall.cli_params, rcall.profile_name))
  /\ UNCHANGED << rcall, provenanceVars, registryVars, runVars, callVars, collectorVars >>

NextResolver == Resolve

InitResolver == ProvenanceIdle /\ RegistryIdle /\ ResolverInit /\ RunIdle /\ CallIdle /\ CollectorIdle

SpecResolver == InitResolver /\ [][NextResolver]_vars

-----------------------------------------------------------------------------
(* runner.py: run_training, step by step.  A call is made by one process   *)
(* (the train command); out and stdout are the output directory and the    *)
(* output of the call under way.                                           *)

MaxTrainings == 2    \* run_training calls per behaviour

PRESETS == {"std-train", "hq-train"}

get_preset(preset_id) ==
  IF preset_id \notin PRESETS
    THEN [raised |-> "ValueError", value |-> None]
    ELSE [raised |-> "none", value |-> PyStr(preset_id)]

(* Where out_dir lies: "inside" is an absolute path below a .runforge      *)
(* directory, "relative" is such a path given relative to the working      *)
(* directory, "beside" is an absolute path in a workspace, outside its     *)
(* .runforge directory (which may or may not exist).                       *)
OutDirs == {"inside", "relative", "beside"}

(* RUNFORGE_DATASET: not set, naming no file, naming a CSV file without a  *)
(* label column, naming a CSV file that loads.                             *)
Datasets == {"unset", "missing", "no-label", "valid"}

(* out_path.mkdir(parents=True): creates .runforge when out_dir is below   *)
(* it.                                                                     *)
path_mkdir(out_dir, f) == IF out_dir \in {"inside", "relative"} THEN fs_mkdir(f) ELSE f

(* _find_runforge_dir resolves the path and walks up: a parent named       *)
(* .runforge, else an existing .runforge directory beside a parent.        *)
_find_runforge_dir(out_dir, f) ==
  IF out_dir \in {"inside", "relative"} THEN TRUE ELSE f.dir

(* out_path.relative_to(runforge_dir), runforge_dir being resolved and     *)
(* out_path not: only an absolute path below .runforge is a subpath.       *)
relative_to(out_dir) ==
  IF out_dir = "inside"
    THEN [raised |-> "none", value |-> "runs/x"]
    ELSE [raised |-> "ValueError", value |-> None]

load_csv(dataset) ==
  IF dataset = "no-label"
    THEN [raised |-> "ValueError", value |-> None]
    ELSE [raised |-> "none", value |-> PyStr(dataset)]

(* The SHA-256 of the bytes of the dataset file.                           *)
compute_dataset_fingerprint(dataset) == << "sha256", dataset >>

(* YYYYMMDD-HHMMSS-<shortHash>: the clock to the second and a hash of      *)
(* fingerprint and label column.                                           *)
generate_run_id(dataset_fingerprint, label_column, ts) ==
  [time |-> ts, short_hash |-> << dataset_fingerprint, label_column >>]

(* The document create_run_metadata builds when run_training calls it.     *)
create_run_metadata(run_id, dataset_fingerprint, model_family, ts) ==
  [run_id |-> run_id, created_at |-> ts,
   dataset_fingerprint |-> dataset_fingerprint, label_column |-> "label",
   model_family |-> model_family, model_pkl |-> "artifacts/model.pkl"]

(* A model.pkl that is not written.                                        *)
Pickle_unwritten(pipeline) == NoFile

(* pickle.dump(pipeline, f) into a file opened "wb" and closed.            *)
Pickle(pipeline) == [k |-> "pickle", pipeline |-> pipeline]
Json(doc) == [k |-> "json", doc |-> doc]

EmptyOut ==
  [dir |-> FALSE, artifacts |-> FALSE,
   model_pkl |-> NoFile, metrics_json |-> NoFile, run_json |-> NoFile]

(* What run_training prints about the index, and its last banner.          *)
Line(text, e) == [line |-> text, e |-> e]
Updated == Line("Provenance index updated", "-")
Warning(e) == Line("Warning: Could not update provenance index", e)
Note == Line("Note: Not in a .runforge workspace, skipping provenance index", "-")
Complete == Line("Training complete!", "-")

(* The exceptions of the model are all subclasses of Exception; only       *)
(* these are not.                                                          *)
NotExceptions == {"KeyboardInterrupt", "SystemExit"}

(* A handler that catches I/O errors only: "except OSError".               *)
except_OSError(exc) == exc \in {"OSError", "FileExistsError", "FileNotFoundError"}

(* "except Exception as e"                                                 *)
except_Exception(exc) == exc \notin NotExceptions

(* The arguments run_training passes to append_run_to_index.               *)
IndexArgs(metadata, rel) ==
  [run_id |-> metadata.run_id, created_at |-> metadata.created_at,
   dataset_fingerprint |-> metadata.dataset_fingerprint, label_column |-> "label",
   run_dir |-> << rel, "run.json" >>,
   model_pkl |-> << rel, "artifacts", "model.pkl" >>]

(* The body of the try block: relative_to, then append_run_to_index.       *)
provenance_try(out_dir, f, ts, plat, metadata, io_ok) ==
  LET rel == relative_to(out_dir)
  IN  IF rel.raised # "none"
        THEN [raised |-> rel.raised, fs |-> f]
        ELSE append_run_to_index(f, ts, plat, IndexArgs(metadata, rel.value), io_ok)

NoRun(n) ==
  [pc |-> "idle", n |-> n, args |-> None, resolved |-> None, hyperparams |-> None,
   pipeline |-> None, metadata |-> None, provenance |-> "-", raised |-> "none"]

Raise(r, exc) == [r EXCEPT !.pc = "raised", !.raised = exc]

Base(out_dir, dataset) ==
  [preset_id |-> "std-train", out_dir |-> out_dir,
   model_family |-> "logistic_regression", cli_params |-> None,
   profile_name |-> None, dataset |-> dataset]

(* The calls the model makes: every place of out_dir with every dataset,   *)
(* and a registered profile, an unregistered one and an unknown preset.    *)
RunInputs ==
  { Base(o, d) : o \in OutDirs, d \in Datasets }
    \cup { [Base("inside", "valid") EXCEPT !.profile_name = PyStr(p)] :
             p \in {"thorough", "nightly"} }
    \cup { [Base("inside", "valid") EXCEPT !.preset_id = "no-such-preset"] }

RunInit ==
  /\ run = NoRun(0)
  /\ out = EmptyOut
  /\ stdout = << >>

Running == {"resolve", "mkdir", "dataset", "train", "model", "metrics",
            "metadata", "provenance", "summary"}

RunStart(a) ==
  /\ run.pc \notin Running
  /\ run.n < MaxTrainings
  /\ run' = [NoRun(run.n + 1) EXCEPT !.pc = "resolve", !.args = a]
  /\ out' = EmptyOut
  /\ stdout' = << >>
  /\ UNCHANGED << provenanceVars, registryVars, resolverVars, callVars, collectorVars >>

(* d.update(other): the items of other, in their order, set into d.        *)
RECURSIVE dict_update(_, _)
dict_update(items, other) ==
  IF other = << >> THEN items
  ELSE dict_update(dict_set(items, other[1][1], other[1][2]), Tail(other))

(* Lines 118-136: the str values of the resolved hyperparameters go        *)
(* through validate_and_convert with the resolved family, the others are   *)
(* taken as they are and set last.                                         *)
typed_hyperparams(model_family, hyperparameters) ==
  LET string_params == SelectSeq(hyperparameters, LAMBDA item : item[2].t = "str")
      typed_params == SelectSeq(hyperparameters, LAMBDA item : item[2].t # "str")
  IN  IF string_params = << >> THEN Converted(Dict(typed_params))
      ELSE LET validated == validate_and_convert(model_family, Dict(string_params))
           IN  IF validated.raised # "none" THEN validated
               ELSE Converted(Dict(dict_update(validated.value.kv, typed_params)))

(* preset["defaults"], as far as train_model is given them; the value of   *)
(* C is 1.0 / regularization.                                              *)
preset_defaults(preset_id) ==
  IF preset_id = "std-train"
    THEN [C |-> PyFloat(Finite(1, 1, 0)), solver |-> PyStr("lbfgs"), max_iter |-> PyInt(200)]
    ELSE [C |-> PyFloat(Finite(1, 2, 0)), solver |-> PyStr("lbfgs"), max_iter |-> PyInt(500)]

(* A lookup that gives the default whatever the dict holds.                *)
hp_get_default(hp, key, default) == default

(* hp.get(key, default)                                                    *)
hp_get(hp, key, default) ==
  IF key \in dict_keys(hp) THEN dict_get(hp, key) ELSE default

(* model_factory.create_estimator(model_family, random_state, **kwargs):   *)
(* the parameters the family's estimator is built with, random_state left  *)
(* out.  Each _create_* takes from kwargs the names it knows.              *)
create_estimator(model_family, kwargs) ==
  CASE model_family = "logistic_regression" ->
         << << "C", hp_get(kwargs, "C", PyFloat(Finite(1, 1, 0))) >>,
            << "solver", hp_get(kwargs, "solver", PyStr("lbfgs")) >>,
            << "max_iter", hp_get(kwargs, "max_iter", PyInt(100)) >>,
            << "warm_start", hp_get(kwargs, "warm_start", PyBool(FALSE)) >> >>
    [] model_family = "random_forest" ->
         << << "n_estimators", hp_get(kwargs, "n_estimators", PyInt(100)) >>,
            << "max_depth", hp_get(kwargs, "max_depth", None) >>,
            << "n_jobs", PyInt(1) >> >>
    [] model_family = "linear_svc" ->
         << << "C", hp_get(kwargs, "C", PyFloat(Finite(1, 1, 0))) >>,
            << "max_iter", hp_get(kwargs, "max_iter", PyInt(1000)) >>,
            << "dual", PyStr("auto") >> >>

(* The call train_model makes: the keyword arguments and the estimator     *)
(* they give.                                                              *)
Estimator(model_family, kwargs) ==
  [model_family |-> model_family, kwargs |-> kwargs,
   estimator |-> create_estimator(model_family, kwargs)]

(* train_model, lines 516-552: the keyword arguments create_estimator is   *)
(* called with for the family; a name of hyperparams that the family's     *)
(* branch does not look up is not passed on.                               *)
train_model(model_family, defaults, hyperparams) ==
  LET hp == hyperparams.kv
      C == hp_get(hp, "C", defaults.C)
  IN  Estimator(model_family,
        CASE model_family = "logistic_regression" ->
               << << "C", C >>,
                  << "solver", hp_get(hp, "solver", defaults.solver) >>,
                  << "max_iter", hp_get(hp, "max_iter", defaults.max_iter) >>,
                  << "warm_start", hp_get(hp, "warm_start", PyBool(TRUE)) >> >>
          [] model_family = "random_forest" ->
               << << "n_estimators", hp_get(hp, "n_estimators", PyInt(100)) >>,
                  << "max_depth", hp_get(hp, "max_depth", None) >> >>
          [] model_family = "linear_svc" ->
               << << "C", C >>,
                  << "max_iter", hp_get(hp, "max_iter", defaults.max_iter) >> >>)

(* A call that goes on without the hyperparameters that failed            *)
(* validation.                                                             *)
Typed_unchecked(r, config, typed) ==
  [r EXCEPT !.pc = "mkdir", !.resolved = config,
            !.hyperparams = IF typed.raised = "none" THEN typed.value ELSE Dict(<< >>)]

(* get_preset, resolve_config, then the typed hyperparameters: the first   *)
(* of them that raises ends the call, before anything is written.          *)
Typed(r, config, typed) ==
  IF typed.raised # "none" THEN Raise(r, typed.raised)
  ELSE [r EXCEPT !.pc = "mkdir", !.resolved = config, !.hyperparams = typed.value]

Resolved(r, preset, config) ==
  IF preset.raised # "none" THEN Raise(r, preset.raised)
  ELSE IF config.raised # "none" THEN Raise(r, config.raised)
  ELSE Typed(r, config.value,
             typed_hyperparams(config.value.model_family, config.value.hyperparameters))

RunResolve ==
  /\ run.pc = "resolve"
  /\ run' = Resolved(run, get_preset(run.args.preset_id),
                     resolve_config(run.args.model_family, run.args.cli_params,
                                    run.args.profile_name))
  /\ UNCHANGED << out, stdout, provenanceVars, registryVars, resolverVars, callVars, collectorVars >>

RunMkdir ==
  /\ run.pc = "mkdir"
  /\ out' = [out EXCEPT !.dir = TRUE, !.artifacts = TRUE]
  /\ fs' = path_mkdir(run.args.out_dir, fs)
  /\ run' = [run EXCEPT !.pc = "dataset"]
  /\ UNCHANGED << stdout, now, platform, op, ret, calls, faults >>
  /\ UNCHANGED << registryVars, resolverVars, callVars, collectorVars >>

RunDataset ==
  /\ run.pc = "dataset"
  /\ run' = IF run.args.dataset = "unset" THEN Raise(run, "ValueError")
            ELSE IF run.args.dataset = "missing" THEN Raise(run, "FileNotFoundError")
            ELSE IF load_csv(run.args.dataset).raised # "none"
              THEN Raise(run, load_csv(run.args.dataset).raised)
            ELSE [run EXCEPT !.pc = "train"]
  /\ UNCHANGED << out, stdout, provenanceVars, registryVars, resolverVars, callVars, collectorVars >>

RunTrain ==
  /\ run.pc = "train"
  /\ run' = [run EXCEPT !.pc = "model",
                        !.pipeline = train_model(run.resolved.model_family,
                                                 preset_defaults(run.args.preset_id),
                                                 run.hyperparams)]
  /\ UNCHANGED << out, stdout, provenanceVars, registryVars, resolverVars, callVars, collectorVars >>

RunSaveModel ==
  /\ run.pc = "model"
  /\ out' = [out EXCEPT !.model_pkl = Pickle(run.pipeline)]
  /\ run' = [run EXCEPT !.pc = "metrics"]
  /\ UNCHANGED << stdout, provenanceVars, registryVars, resolverVars, callVars, collectorVars >>

RunSaveMetrics ==
  /\ run.pc = "metrics"
  /\ out' = [out EXCEPT !.metrics_json =
               Json([keys |-> {"accuracy", "num_samples", "num_features"}])]
  /\ run' = [run EXCEPT !.pc = "metadata"]
  /\ UNCHANGED << stdout, provenanceVars, registryVars, resolverVars, callVars, collectorVars >>

RunSaveMetadata ==
  /\ run.pc = "metadata"
  /\ LET fp == compute_dataset_fingerprint(run.args.dataset)
         metadata == create_run_metadata(generate_run_id(fp, "label", now), fp,
                                         run.resolved.model_family, now)
     IN  /\ out' = [out EXCEPT !.run_json = Json(metadata)]
         /\ run' = [run EXCEPT !.pc = "provenance", !.metadata = metadata]
  /\ UNCHANGED << stdout, provenanceVars, registryVars, resolverVars, callVars, collectorVars >>

(* Lines 253-272: find the workspace, try the append, report.              *)
Reported(found, r) ==
  IF ~found THEN [pc |-> "summary", provenance |-> "skipped", printed |-> << Note >>]
  ELSE IF r.raised = "none"
    THEN [pc |-> "summary", provenance |-> "none", printed |-> << Updated >>]
  ELSE IF except_Exception(r.raised)
    THEN [pc |-> "summary", provenance |-> r.raised, printed |-> << Warning(r.raised) >>]
  ELSE [pc |-> "raised", provenance |-> r.raised, printed |-> << >>]

RunProvenance(io_ok) ==
  /\ run.pc = "provenance"
  /\ LET found == _find_runforge_dir(run.args.out_dir, fs)
         r == provenance_try(run.args.out_dir, fs, now, platform, run.metadata, io_ok)
         rep == Reported(found, r)
     IN  /\ fs' = IF found THEN r.fs ELSE fs
         /\ calls' = IF found /\ r.raised = "none"
                       THEN Append(calls, IndexArgs(run.metadata, relative_to(run.args.out_dir).value))
                       ELSE calls
         /\ stdout' = stdout \o rep.printed
         /\ run' = [run EXCEPT !.pc = rep.pc, !.provenance = rep.provenance,
                               !.raised = IF rep.pc = "raised" THEN rep.provenance ELSE "none"]
  /\ UNCHANGED << out, now, platform, op, ret, faults >>
  /\ UNCHANGED << registryVars, resolverVars, callVars, collectorVars >>

RunSummary ==
  /\ run.pc = "summary"
  /\ stdout' = Append(stdout, Complete)
  /\ run' = [run EXCEPT !.pc = "returned"]
  /\ UNCHANGED << out, provenanceVars, registryVars, resolverVars, callVars, collectorVars >>

(* The index is overwritten while no call is under way.                    *)
CorruptBetweenRuns(c) ==
  /\ run.pc \notin Running
  /\ Corrupt(c)

NextRun ==
  \/ \E a \in RunInputs : RunStart(a)
  \/ RunResolve
  \/ RunMkdir
  \/ RunDataset
  \/ RunTrain
  \/ RunSaveModel
  \/ RunSaveMetrics
  \/ RunSaveMetadata
  \/ \E io_ok \in BOOLEAN : RunProvenance(io_ok)
  \/ RunSummary
  \/ \E c \in ForeignContents : CorruptBetweenRuns(c)
  \/ Tick

InitRun == ProvenanceInit /\ RegistryIdle /\ ResolverIdle /\ RunInit /\ CallIdle /\ CollectorIdle

SpecRun == InitRun /\ [][NextRun]_vars

(* Calls of run_training on a dataset that loads and an out_dir below      *)
(* .runforge: every cli_params with each family and no profile, and with   *)
(* each registered profile.                                                *)
TrainCliNames == {"max_iter", "n_estimators", "max_depth"}
TrainCliValues == {PyStr("2"), PyStr("None")}
TrainCliItems ==
  UNION { { items \in [1..n -> TrainCliNames \X TrainCliValues] :
              \A i, j \in 1..n : items[i][1] = items[j][1] => i = j } :
          n \in 0..MaxCliParams }
TrainCliParams == {None} \cup { Dict(items) : items \in TrainCliItems }
TrainProfiles == {PyStr("default"), PyStr("fast"), PyStr("thorough")}
TrainInputs ==
  { [Base("inside", "valid") EXCEPT !.model_family = f, !.cli_params = c] :
      f \in ModelFamilies, c \in TrainCliParams }
    \cup { [Base("inside", "valid") EXCEPT !.cli_params = c, !.profile_name = p] :
             c \in TrainCliParams, p \in TrainProfiles }

NextTrain ==
  \/ \E a \in TrainInputs : RunStart(a)
  \/ RunResolve
  \/ RunMkdir
  \/ RunDataset
  \/ RunTrain
  \/ RunSaveModel
  \/ RunSaveMetrics
  \/ RunSaveMetadata
  \/ RunProvenance(TRUE)
  \/ RunSummary

SpecTrain == InitRun /\ [][NextTrain]_vars

-----------------------------------------------------------------------------
(* validate_and_convert applied to one set of arguments.                   *)

MaxPairs == 3        \* pairs of one params dict

RawValues == { row[1] : row \in RawValueTable }
ParamNames ==
  {"C", "max_iter", "solver", "warm_start", "n_estimators", "max_depth",
   "min_samples_split", "min_samples_leaf", "bogus"}
Families == {"logistic_regression", "random_forest", "linear_svc", "bogus"}

(* The pairs the longer dicts are made of: valid ones, and one that fails  *)
(* each check.                                                             *)
PairPool ==
  { << "max_iter", PyStr("50") >>, << "max_iter", PyStr("abc") >>,
    << "C", PyStr("0.5") >>, << "C", PyStr("0") >>,
    << "bogus", PyStr("1") >>, << "n_estimators", PyStr("2") >>,
    << "max_depth", PyStr("None") >> }

ParamDicts ==
  { Dict(<< << name, PyStr(raw) >> >>) : name \in ParamNames, raw \in RawValues }
    \cup UNION { { Dict(items) : items \in
                     { s \in [1..n -> PairPool] :
                         \A i, j \in 1..n : s[i][1] = s[j][1] => i = j } } :
                 n \in {0} \cup 2..MaxPairs }

ValidateCalls ==
  { [fn |-> "validate_and_convert", model_family |-> f, params |-> d] :
      f \in Families, d \in ParamDicts }

ValidateInit ==
  /\ fcall \in ValidateCalls
  /\ fret = NoReturn

Validate ==
  /\ fcall # None
  /\ fcall.fn = "validate_and_convert"
  /\ fret = NoReturn
  /\ fret' = [call |-> "validate_and_convert"]
               @@ validate_and_convert(fcall.model_family, fcall.params)
  /\ UNCHANGED << fcall, provenanceVars, registryVars, resolverVars, runVars, collectorVars >>

NextValidate == Validate

InitValidate == ProvenanceIdle /\ RegistryIdle /\ ResolverIdle /\ RunIdle /\ ValidateInit /\ CollectorIdle

SpecValidate == InitValidate /\ [][NextValidate]_vars

-----------------------------------------------------------------------------
(* The queries of provenance.py.  Each loads the index first, so each      *)
(* result comes with the directory as load_index leaves it.                *)

QueryResult(raised, value, f) == [raised |-> raised, value |-> value, fs |-> f]

(* index.get("runs", [])                                                   *)
index_get_runs(index) ==
  IF "runs" \in DOMAIN index.d THEN index.d.runs ELSE PyList(<< >>)

(* The last entry whatever the index holds: runs[0] in place of runs[-1].  *)
last_run_oldest(runs) == IF runs = << >> THEN None ELSE runs[1]

(* runs[-1] if runs else None                                              *)
last_run(runs) == IF runs = << >> THEN None ELSE runs[Len(runs)]

(* for run in runs: if run.get("run_id") == run_id: return run             *)
RECURSIVE first_with_id(_, _)
first_with_id(runs, run_id) ==
  IF runs = << >> THEN None
  ELSE IF runs[1].run_id = run_id THEN runs[1]
  ELSE first_with_id(Tail(runs), run_id)

(* [run for run in runs if run.get("dataset_fingerprint_sha256") == fp]    *)
RECURSIVE with_fingerprint(_, _)
with_fingerprint(runs, fingerprint) ==
  IF runs = << >> THEN << >>
  ELSE (IF runs[1].dataset_fingerprint_sha256 = fingerprint THEN << runs[1] >> ELSE << >>)
         \o with_fingerprint(Tail(runs), fingerprint)

(* What each query does with the loaded index; a runs value that is no     *)
(* list cannot be indexed or iterated (TypeError), list_runs hands it on.  *)
get_latest_run(f, ts, plat) ==
  LET ld == load_index(f, ts, plat)
  IN  IF ld.raised # "none" THEN QueryResult(ld.raised, None, ld.fs)
      ELSE IF index_get_runs(ld.value).t = "list"
        THEN QueryResult("none", last_run(index_get_runs(ld.value).l), ld.fs)
      ELSE IF truthy(index_get_runs(ld.value)) THEN QueryResult("TypeError", None, ld.fs)
      ELSE QueryResult("none", None, ld.fs)

get_run_by_id(f, ts, plat, run_id) ==
  LET ld == load_index(f, ts, plat)
  IN  IF ld.raised # "none" THEN QueryResult(ld.raised, None, ld.fs)
      ELSE IF index_get_runs(ld.value).t = "list"
        THEN QueryResult("none", first_with_id(index_get_runs(ld.value).l, run_id), ld.fs)
      ELSE QueryResult("TypeError", None, ld.fs)

list_runs(f, ts, plat) ==
  LET ld == load_index(f, ts, plat)
  IN  IF ld.raised # "none" THEN QueryResult(ld.raised, None, ld.fs)
      ELSE IF index_get_runs(ld.value).t = "list"
        THEN QueryResult("none", index_get_runs(ld.value), ld.fs)
      ELSE QueryResult("none", index_get_runs(ld.value), ld.fs)

find_runs_by_fingerprint(f, ts, plat, fingerprint) ==
  LET ld == load_index(f, ts, plat)
  IN  IF ld.raised # "none" THEN QueryResult(ld.raised, None, ld.fs)
      ELSE IF index_get_runs(ld.value).t = "list"
        THEN QueryResult("none",
                         PyList(with_fingerprint(index_get_runs(ld.value).l, fingerprint)),
                         ld.fs)
      ELSE QueryResult("TypeError", None, ld.fs)

Queries ==
  { [name |-> "get_latest_run", arg |-> "-"], [name |-> "list_runs", arg |-> "-"] }
    \cup { [name |-> "get_run_by_id", arg |-> id] : id \in RunIds \cup {"run-9"} }
    \cup { [name |-> "find_runs_by_fingerprint", arg |-> fp] : fp \in Fingerprints \cup {"fp-z"} }

query(q, f, ts, plat) ==
  CASE q.name = "get_latest_run" -> get_latest_run(f, ts, plat)
    [] q.name = "get_run_by_id" -> get_run_by_id(f, ts, plat, q.arg)
    [] q.name = "list_runs" -> list_runs(f, ts, plat)
    [] q.name = "find_runs_by_fingerprint" -> find_runs_by_fingerprint(f, ts, plat, q.arg)

Query(p, q) ==
  /\ op[p].name = "idle"
  /\ LET r == query(q, fs, now, platform)
     IN  /\ fs' = r.fs
         /\ ret' = [ret EXCEPT ![p] = Returned(q.name, r.raised, r.value)]
  /\ UNCHANGED << now, platform, op, calls, faults >>
  /\ UNCHANGED << registryVars, resolverVars, callVars, collectorVars, runVars >>

(* index.json is overwritten once in a behaviour.                          *)
CorruptOnce(c) ==
  /\ faults = 0
  /\ Corrupt(c)

(* Appends and queries of one process, with an environment that may        *)
(* overwrite index.json between them.                                      *)
NextQuery ==
  \/ \E a \in RunArgs : AppendRun(Writer, a, TRUE)
  \/ \E q \in Queries : Query(Writer, q)
  \/ \E c \in ForeignContents : CorruptOnce(c)

SpecQuery == Init /\ [][NextQuery]_vars

-----------------------------------------------------------------------------
(* metadata.py: create_run_metadata with its optional arguments.           *)

(* The document for the given optional arguments (the required ones are    *)
(* those of one run): the base fields, then each optional group under its  *)
(* own condition.                                                          *)
base_metadata ==
  << << "run_id", PyStr("run-1") >>,
     << "created_at", PyStr("2026-01-31T00:00:00+00:00") >>,
     << "model_family", PyStr("logistic_regression") >>,
     << "artifacts", Dict(<< << "model_pkl", PyStr("artifacts/model.pkl") >> >>) >> >>

add_metrics_v1(metadata, a) ==
  IF truthy(a.metrics_v1_schema_version) /\ truthy(a.metrics_v1_profile)
       /\ truthy(a.metrics_v1_artifact_path)
    THEN dict_set(
           dict_set(metadata, "metrics_v1",
                    Dict(<< << "schema_version", a.metrics_v1_schema_version >>,
                            << "metrics_profile", a.metrics_v1_profile >>,
                            << "artifact_path", a.metrics_v1_artifact_path >> >>)),
           "artifacts",
           Dict(dict_set(dict_get(metadata, "artifacts").kv, "metrics_v1_json",
                         a.metrics_v1_artifact_path)))
    ELSE metadata

add_feature_importance(metadata, a) ==
  IF truthy(a.feature_importance_schema_version)
       /\ truthy(a.feature_importance_artifact_path)
    THEN dict_set(
           dict_set(
             dict_set(metadata, "feature_importance_schema_version",
                      a.feature_importance_schema_version),
             "feature_importance_artifact", a.feature_importance_artifact_path),
           "artifacts",
           Dict(dict_set(dict_get(metadata, "artifacts").kv, "feature_importance_json",
                         a.feature_importance_artifact_path)))
    ELSE metadata

(* if profile_name is not None: the three keys are written as given.       *)
add_profile(metadata, a) ==
  IF a.profile_name # None
    THEN dict_set(
           dict_set(dict_set(metadata, "profile_name", a.profile_name),
                    "profile_version", a.profile_version),
           "expanded_parameters_hash", a.expanded_parameters_hash)
    ELSE metadata

(* if hyperparameters:                                                     *)
add_hyperparameters(metadata, a) ==
  IF truthy(a.hyperparameters)
    THEN dict_set(metadata, "hyperparameters", a.hyperparameters)
    ELSE metadata

create_run_metadata_dict(a) ==
  Dict(add_hyperparameters(
         add_profile(add_feature_importance(add_metrics_v1(base_metadata, a), a), a), a))

OptionalStrings == {None, PyStr(""), PyStr("x")}
OptionalLists ==
  {None, PyList(<< >>),
   PyList(<< [name |-> "C", value |-> PyStr("0.5"), source |-> "cli"] >>)}

MetadataCalls ==
  [fn : {"create_run_metadata"},
   profile_name : OptionalStrings, profile_version : OptionalStrings,
   expanded_parameters_hash : OptionalStrings,
   hyperparameters : OptionalLists,
   metrics_v1_schema_version : OptionalStrings, metrics_v1_profile : OptionalStrings,
   metrics_v1_artifact_path : OptionalStrings,
   feature_importance_schema_version : OptionalStrings,
   feature_importance_artifact_path : OptionalStrings]

MetadataInit ==
  /\ fcall \in MetadataCalls
  /\ fret = NoReturn

CreateMetadata ==
  /\ fcall # None
  /\ fcall.fn = "create_run_metadata"
  /\ fret = NoReturn
  /\ fret' = Returned("create_run_metadata", "none", create_run_metadata_dict(fcall))
  /\ UNCHANGED << fcall, provenanceVars, registryVars, resolverVars, runVars, collectorVars >>

NextMetadata == CreateMetadata

InitMetadata == ProvenanceIdle /\ RegistryIdle /\ ResolverIdle /\ RunIdle /\ MetadataInit /\ CollectorIdle

SpecMetadata == InitMetadata /\ [][NextMetadata]_vars

(* A call of create_run_metadata by keyword: the required arguments of one *)
(* run and some optional ones.  A keyword the signature (metadata.py:70-91)*)
(* does not have makes the call raise TypeError before the body runs; a    *)
(* parameter that is not given has its default, None.                      *)
OptionalParameters ==
  {"profile_name", "profile_version", "expanded_parameters_hash", "hyperparameters",
   "metrics_v1_schema_version", "metrics_v1_profile", "metrics_v1_artifact_path",
   "feature_importance_schema_version", "feature_importance_artifact_path"}

bind_keywords(kwargs) ==
  [name \in OptionalParameters |-> IF name \in DOMAIN kwargs THEN kwargs[name] ELSE None]

call_create_run_metadata(kwargs) ==
  IF ~(DOMAIN kwargs \subseteq OptionalParameters)
    THEN [raised |-> "TypeError", value |-> None]
    ELSE [raised |-> "none", value |-> create_run_metadata_dict(bind_keywords(kwargs))]

KeywordNames ==
  {"profile_name", "feature_importance_schema_version", "feature_importance_artifact_path",
   "linear_coefficients_schema_version", "linear_coefficients_artifact_path"}
KeywordValues == {None, PyStr("x")}
KeywordCalls ==
  [fn : {"create_run_metadata(**kwargs)"},
   kwargs : UNION { [given -> KeywordValues] : given \in SUBSET KeywordNames }]

KeywordInit ==
  /\ fcall \in KeywordCalls
  /\ fret = NoReturn

CreateMetadataByKeyword ==
  /\ fcall # None
  /\ fcall.fn = "create_run_metadata(**kwargs)"
  /\ fret = NoReturn
  /\ fret' = ReturnedFrom("create_run_metadata", call_create_run_metadata(fcall.kwargs))
  /\ UNCHANGED << fcall, provenanceVars, registryVars, resolverVars, runVars, collectorVars >>

NextKeyword == CreateMetadataByKeyword

InitKeyword == ProvenanceIdle /\ RegistryIdle /\ ResolverIdle /\ RunIdle /\ KeywordInit /\ CollectorIdle

SpecKeyword == InitKeyword /\ [][NextKeyword]_vars

-----------------------------------------------------------------------------
(* params.py and cli.py: the command line of the train command.  An        *)
(* argument vector is the sequence of its << option, value >> pairs, the   *)
(* word "train" left out.                                                  *)

MaxFlags == 2    \* options of one command line beyond the train command's own

ArgStringTable ==
  { <<"C=1.0", << 67, 61, 49, 46, 48 >> >>,
    <<"max_iter=200", << 109, 97, 120, 95, 105, 116, 101, 114, 61, 50, 48, 48 >> >>,
    <<"path=/a=b", << 112, 97, 116, 104, 61, 47, 97, 61, 98 >> >>,
    <<"C", << 67 >> >>,
    <<"=1", << 61, 49 >> >>,
    <<"C=", << 67, 61 >> >>,
    <<"C= ", << 67, 61, 32 >> >> }

ArgChars(str) == (CHOOSE row \in ArgStringTable \cup RawValueTable : row[1] = str)[2]

(* str.isalnum() on ASCII: not empty, letters and digits only.             *)
isalnum(cs) ==
  /\ cs # << >>
  /\ \A i \in DOMAIN cs : cs[i] \in (48..57) \cup (65..90) \cup (97..122)

(* parse_param: split at the first "=", strip both sides; the name and the *)
(* value must not be empty and the name, its underscores aside, must be    *)
(* alphanumeric.                                                           *)
parse_param(param_str) ==
  LET at == IndexOf(param_str, 61)
      name == strip(SubSeq(param_str, 1, at - 1))
      value == strip(SubSeq(param_str, at + 1, Len(param_str)))
  IN  IF at = 0 THEN [raised |-> "ParamParseError", value |-> None]
      ELSE IF name = << >> THEN [raised |-> "ParamParseError", value |-> None]
      ELSE IF value = << >> THEN [raised |-> "ParamParseError", value |-> None]
      ELSE IF ~isalnum(SelectSeq(name, LAMBDA c : c # 95))
        THEN [raised |-> "ParamParseError", value |-> None]
      ELSE [raised |-> "none", value |-> << name, value >>]

(* parse_params: the pairs in order, a later value replacing an earlier    *)
(* one of the same name; the first malformed string raises.                *)
RECURSIVE parse_params(_, _)
parse_params(param_list, result) ==
  IF param_list = << >> THEN [raised |-> "none", value |-> result]
  ELSE LET pair == parse_param(param_list[1])
       IN  IF pair.raised # "none" THEN pair
           ELSE parse_params(Tail(param_list),
                             dict_set(result, pair.value[1], PyStrOf(pair.value[2])))

(* The options train_parser declares (cli.py:36-58).  argparse takes an    *)
(* option string that is a prefix of exactly one of them for it; of the    *)
(* strings below none is.                                                  *)
TrainOptions == {"--preset", "--out", "--seed", "--device"}
RequiredOptions == {"--preset", "--out", "--device"}

OptionChoices(option) ==
  CASE option = "--preset" -> {"std-train", "hq-train"}
    [] option = "--device" -> {"cuda", "cpu"}

EmptyNamespace == [preset |-> None, out |-> None, seed |-> None, device |-> None]

(* parser.error(...): the usage message on stderr and sys.exit(2).         *)
ParserError == [raised |-> "SystemExit", code |-> 2, value |-> None]

(* One option of the vector stored into the namespace, or the error of     *)
(* its value.                                                              *)
store_option(ns, option, value) ==
  CASE option = "--preset" ->
         IF value \in OptionChoices(option)
           THEN [raised |-> "none", value |-> [ns EXCEPT !.preset = PyStr(value)]]
           ELSE ParserError
    [] option = "--device" ->
         IF value \in OptionChoices(option)
           THEN [raised |-> "none", value |-> [ns EXCEPT !.device = PyStr(value)]]
           ELSE ParserError
    [] option = "--out" -> [raised |-> "none", value |-> [ns EXCEPT !.out = PyStr(value)]]
    [] option = "--seed" ->
         IF _parse_int(ArgChars(value)).raised = "none"
           THEN [raised |-> "none", value |-> [ns EXCEPT !.seed = _parse_int(ArgChars(value)).value]]
           ELSE ParserError

(* parser.parse_args() for the train command: the declared options are     *)
(* stored; a required option that is missing, and any argument the parser  *)
(* does not declare, end the program with exit status 2.                   *)
RECURSIVE parse_args(_, _, _, _)
parse_args(argv, ns, seen, extras) ==
  IF argv = << >>
    THEN IF ~(RequiredOptions \subseteq seen) THEN ParserError
         ELSE IF extras # << >> THEN ParserError
         ELSE [raised |-> "none", value |-> ns]
  ELSE LET option == argv[1][1]
       IN  IF option \notin TrainOptions
             THEN parse_args(Tail(argv), ns, seen, Append(extras, argv[1]))
           ELSE LET stored == store_option(ns, option, argv[1][2])
                IN  IF stored.raised # "none" THEN stored
                    ELSE parse_args(Tail(argv), stored.value, seen \cup {option}, extras)

Exit(kind, code) == [kind |-> kind, code |-> code]

(* The train branch of main (cli.py:117-128): run_training is called with  *)
(* the four values of the namespace; main returns 0 when it returns and 1  *)
(* when it raises an Exception.  outcome is what the run_training of the   *)
(* call does.                                                              *)
train_branch(args, outcome) ==
  LET kwargs == [preset_id |-> args.preset, out_dir |-> args.out,
                 seed |-> args.seed, device |-> args.device]
  IN  IF outcome = "none" THEN [exit |-> Exit("return", 0), run_training |-> << kwargs >>]
      ELSE IF except_Exception(outcome)
        THEN [exit |-> Exit("return", 1), run_training |-> << kwargs >>]
      ELSE [exit |-> Exit(outcome, 1), run_training |-> << kwargs >>]

main(argv, outcome) ==
  LET args == parse_args(argv, EmptyNamespace, {}, << >>)
  IN  IF args.raised # "none"
        THEN [exit |-> Exit(args.raised, args.code), run_training |-> << >>]
        ELSE train_branch(args.value, outcome)

(* The command lines of the model: the train command's own options,        *)
(* complete, with one missing or with a value that is no choice, with or   *)
(* without a seed, followed by up to MaxFlags --param and --profile        *)
(* options.                                                                *)
OwnOptions ==
  { << << "--preset", "std-train" >>, << "--out", "out" >>, << "--device", "cpu" >> >>,
    << << "--preset", "std-train" >>, << "--out", "out" >> >>,
    << << "--preset", "fast" >>, << "--out", "out" >>, << "--device", "cpu" >> >> }
SeedOptions == { << >>, << << "--seed", "2" >> >>, << << "--seed", "abc" >> >> }
ParamStrings == { row[1] : row \in ArgStringTable }
MoreOptions == ({"--param"} \X ParamStrings) \cup {<< "--profile", "fast" >>}
MoreSequences == UNION { [1..n -> MoreOptions] : n \in 0..MaxFlags }
ArgVectors == { own \o seed \o more : own \in OwnOptions, seed \in SeedOptions, more \in MoreSequences }
Outcomes == {"none", "ValueError"}

MainCalls == [fn : {"main"}, argv : ArgVectors, outcome : Outcomes]

MainInit ==
  /\ fcall \in MainCalls
  /\ fret = NoReturn

Main ==
  /\ fcall # None
  /\ fcall.fn = "main"
  /\ fret = NoReturn
  /\ fret' = [call |-> "main"] @@ main(fcall.argv, fcall.outcome)
  /\ UNCHANGED << fcall, provenanceVars, registryVars, resolverVars, runVars, collectorVars >>

NextMain == Main

InitMain == ProvenanceIdle /\ RegistryIdle /\ ResolverIdle /\ RunIdle /\ MainInit /\ CollectorIdle

SpecMain == InitMain /\ [][NextMain]_vars

-----------------------------------------------------------------------------
(* run_training with one --param: every name of validate_and_convert with  *)
(* a choice of raw values, for each family, without a profile; and with a  *)
(* profile that is not registered.                                         *)

EstimatorValues ==
  {PyStr("0.5"), PyStr("50"), PyStr("2"), PyStr("1"), PyStr("0"), PyStr("None"),
   PyStr("lbfgs"), PyStr("true")}
EstimatorInputs ==
  { [Base("inside", "valid") EXCEPT !.model_family = f,
                                    !.cli_params = Dict(<< << name, value >> >>)] :
      f \in ModelFamilies, name \in ParamNames, value \in EstimatorValues }
    \cup { [Base("inside", "valid") EXCEPT !.profile_name = PyStr("nightly"), !.cli_params = c] :
             c \in {None, Dict(<< << "max_iter", PyStr("50") >> >>)} }

NextEstimator ==
  \/ \E a \in EstimatorInputs : RunStart(a)
  \/ RunResolve
  \/ RunMkdir
  \/ RunDataset
  \/ RunTrain
  \/ RunSaveModel
  \/ RunSaveMetrics
  \/ RunSaveMetadata
  \/ RunProvenance(TRUE)
  \/ RunSummary

SpecEstimator == InitRun /\ [][NextEstimator]_vars

-----------------------------------------------------------------------------
(* diagnostics.py: the DiagnosticsCollector.  The collector's _diagnostics *)
(* attribute and the value get_all returns are references to list objects; *)
(* lists maps each reference to the list's elements, so that a list two    *)
(* names refer to changes under both.                                      *)

MaxDiagnostics == 2   \* diagnostics in the collector, and elements of a list the caller changes
MaxLists == 3         \* list objects alive at once: the collector's, the caller's, a new one

ListIds == 1..MaxLists
Free == [t |-> "free"]
Ref(id) == [t |-> "ref", id |-> id]

(* The reference a new list object gets.                                   *)
new_list(heap) ==
  CHOOSE i \in ListIds : heap[i] = Free /\ \A j \in ListIds : j < i => heap[j] # Free

(* A list no name refers to is gone.                                       *)
Referred(self, value) ==
  {self._diagnostics} \cup (IF value.t = "ref" THEN {value.id} ELSE {})

Collected(heap, self, value) ==
  [i \in ListIds |-> IF i \in Referred(self, value) THEN heap[i] ELSE Free]

Diagnostic(code, severity, message, details) ==
  [code |-> code, severity |-> severity, message |-> message, details |-> details]

(* Diagnostic.to_dict: details is left out when it is None or empty.       *)
to_dict(d) ==
  IF truthy(d.details)
    THEN [code |-> d.code, severity |-> d.severity, message |-> d.message,
          details |-> d.details]
    ELSE [code |-> d.code, severity |-> d.severity, message |-> d.message]

(* __init__: self._diagnostics = [].                                       *)
DiagnosticsCollector ==
  [self |-> [_diagnostics |-> 1],
   heap |-> [i \in ListIds |-> IF i = 1 THEN PyList(<< >>) ELSE Free]]

(* add: self._diagnostics.append(diagnostic).                              *)
add_first(self, heap, diagnostic) ==
  [heap EXCEPT ![self._diagnostics] = PyList(<< diagnostic >> \o @.l)]

add(self, heap, diagnostic) ==
  [heap EXCEPT ![self._diagnostics] = PyList(Append(@.l, diagnostic))]

(* The diagnostics the add_* methods build.                                *)
missing_values_dropped(rows_dropped) ==
  Diagnostic("MISSING_VALUES_DROPPED", "info",
             << "Dropped ", rows_dropped, " rows with missing values" >>,
             Dict(<< <<"rows_dropped", PyInt(rows_dropped)>> >>))

label_not_found(expected_label, available_columns) ==
  Diagnostic("LABEL_NOT_FOUND", "error",
             << "Label column '", expected_label, "' not found in dataset" >>,
             Dict(<< <<"expected_label", PyStr(expected_label)>>,
                     <<"available_columns", PyList(available_columns)>> >>))

label_type_invalid(label_column, found_type, expected_types) ==
  Diagnostic("LABEL_TYPE_INVALID", "error",
             << "Label column '", label_column, "' has invalid type: ", found_type >>,
             Dict(<< <<"label_column", PyStr(label_column)>>,
                     <<"found_type", PyStr(found_type)>>,
                     <<"expected_types", PyList(expected_types)>> >>))

zero_rows == Diagnostic("ZERO_ROWS", "error", "Dataset has zero rows after processing", None)

zero_features ==
  Diagnostic("ZERO_FEATURES", "error",
             "Dataset has zero features (only label column present)", None)

label_only_dataset(label_column) ==
  Diagnostic("LABEL_ONLY_DATASET", "error",
             "Dataset contains only the label column with no features",
             Dict(<< <<"label_column", PyStr(label_column)>> >>))

(* add_missing_values_dropped: adds only "if rows_dropped > 0".            *)
add_missing_values_dropped(self, heap, rows_dropped) ==
  IF rows_dropped > 0 THEN add(self, heap, missing_values_dropped(rows_dropped))
  ELSE heap

(* has_errors: any diagnostic of severity "error".                         *)
has_errors(self, heap) ==
  \E i \in 1..Len(heap[self._diagnostics].l) : heap[self._diagnostics].l[i].severity = "error"

(* A get_all that hands out the collector's own list.                      *)
get_all_own_list(self, heap) ==
  [value |-> Ref(self._diagnostics), heap |-> heap]

(* get_all: list(self._diagnostics), a new list with the same elements.    *)
get_all(self, heap) ==
  LET id == new_list(heap)
  IN  [value |-> Ref(id), heap |-> [heap EXCEPT ![id] = PyList(heap[self._diagnostics].l)]]

(* to_list: [d.to_dict() for d in self._diagnostics].                      *)
to_list(self, heap) ==
  PyList([i \in 1..Len(heap[self._diagnostics].l) |-> to_dict(heap[self._diagnostics].l[i])])

(* clear: self._diagnostics = [], a new list; the old one is not emptied.  *)
clear(self, heap) ==
  LET id == new_list(heap)
  IN  [self |-> [self EXCEPT !._diagnostics = id],
       heap |-> [heap EXCEPT ![id] = PyList(<< >>)]]

(* What the caller passes.                                                 *)
CallerDiagnostics ==
  { Diagnostic("CODE1", "info", "First", None),
    Diagnostic("CODE2", "warning", "Second", Dict(<< >>)) }

RowsDropped == {0, 1}

Contents == lists[collector._diagnostics].l

CollectorInit ==
  /\ collector = DiagnosticsCollector.self
  /\ lists = DiagnosticsCollector.heap
  /\ cret = NoReturn
  /\ added = << >>

(* The calls that add.  added takes what the call gives to add.             *)
Add(d) ==
  /\ Len(Contents) < MaxDiagnostics
  /\ lists' = add(collector, lists, d)
  /\ added' = Append(added, d)
  /\ UNCHANGED << collector, cret >>
  /\ UNCHANGED << provenanceVars, registryVars, resolverVars, runVars, callVars >>

AddMissingValuesDropped(n) ==
  /\ Len(Contents) < MaxDiagnostics
  /\ lists' = add_missing_values_dropped(collector, lists, n)
  /\ added' = IF n > 0 THEN Append(added, missing_values_dropped(n)) ELSE added
  /\ UNCHANGED << collector, cret >>
  /\ UNCHANGED << provenanceVars, registryVars, resolverVars, runVars, callVars >>

LabelNotFound == label_not_found("label", << PyStr("a"), PyStr("b") >>)
LabelTypeInvalid == label_type_invalid("label", "float64", << PyStr("int"), PyStr("str") >>)
LabelOnlyDataset == label_only_dataset("label")

AddLabelNotFound ==
  /\ Len(Contents) < MaxDiagnostics
  /\ lists' = add(collector, lists, LabelNotFound)
  /\ added' = Append(added, LabelNotFound)
  /\ UNCHANGED << collector, cret >>
  /\ UNCHANGED << provenanceVars, registryVars, resolverVars, runVars, callVars >>

AddLabelTypeInvalid ==
  /\ Len(Contents) < MaxDiagnostics
  /\ lists' = add(collector, lists, LabelTypeInvalid)
  /\ added' = Append(added, LabelTypeInvalid)
  /\ UNCHANGED << collector, cret >>
  /\ UNCHANGED << provenanceVars, registryVars, resolverVars, runVars, callVars >>

AddZeroRows ==
  /\ Len(Contents) < MaxDiagnostics
  /\ lists' = add(collector, lists, zero_rows)
  /\ added' = Append(added, zero_rows)
  /\ UNCHANGED << collector, cret >>
  /\ UNCHANGED << provenanceVars, registryVars, resolverVars, runVars, callVars >>

AddZeroFeatures ==
  /\ Len(Contents) < MaxDiagnostics
  /\ lists' = add(collector, lists, zero_features)
  /\ added' = Append(added, zero_features)
  /\ UNCHANGED << collector, cret >>
  /\ UNCHANGED << provenanceVars, registryVars, resolverVars, runVars, callVars >>

AddLabelOnlyDataset ==
  /\ Len(Contents) < MaxDiagnostics
  /\ lists' = add(collector, lists, LabelOnlyDataset)
  /\ added' = Append(added, LabelOnlyDataset)
  /\ UNCHANGED << collector, cret >>
  /\ UNCHANGED << provenanceVars, registryVars, resolverVars, runVars, callVars >>

(* The queries: the caller keeps what the call returns in place of what it *)
(* held before.                                                            *)
HasErrors ==
  /\ cret' = Returned("has_errors", "none", PyBool(has_errors(collector, lists)))
  /\ lists' = Collected(lists, collector, PyBool(has_errors(collector, lists)))
  /\ UNCHANGED << collector, added >>
  /\ UNCHANGED << provenanceVars, registryVars, resolverVars, runVars, callVars >>

GetAll ==
  /\ cret' = Returned("get_all", "none", get_all(collector, lists).value)
  /\ lists' = Collected(get_all(collector, lists).heap, collector, get_all(collector, lists).value)
  /\ UNCHANGED << collector, added >>
  /\ UNCHANGED << provenanceVars, registryVars, resolverVars, runVars, callVars >>

ToList ==
  /\ cret' = Returned("to_list", "none", to_list(collector, lists))
  /\ lists' = Collected(lists, collector, to_list(collector, lists))
  /\ UNCHANGED << collector, added >>
  /\ UNCHANGED << provenanceVars, registryVars, resolverVars, runVars, callVars >>

Clear ==
  /\ collector' = clear(collector, lists).self
  /\ lists' = Collected(clear(collector, lists).heap, clear(collector, lists).self, cret.value)
  /\ added' = << >>
  /\ UNCHANGED cret
  /\ UNCHANGED << provenanceVars, registryVars, resolverVars, runVars, callVars >>

(* The caller changes the list get_all returned to it: append, pop, clear. *)
ListMethods == {"append", "pop", "clear"}

ChangeReturnedList(method, d) ==
  /\ cret.call = "get_all"
  /\ LET l == lists[cret.value.id].l
     IN  CASE method = "append" ->
                /\ Len(l) <= MaxDiagnostics
                /\ lists' = [lists EXCEPT ![cret.value.id] = PyList(Append(l, d))]
           [] method = "pop" ->
                /\ l # << >>
                /\ lists' = [lists EXCEPT ![cret.value.id] = PyList(SubSeq(l, 1, Len(l) - 1))]
           [] method = "clear" ->
                /\ l # << >>
                /\ lists' = [lists EXCEPT ![cret.value.id] = PyList(<< >>)]
  /\ UNCHANGED << collector, cret, added >>
  /\ UNCHANGED << provenanceVars, registryVars, resolverVars, runVars, callVars >>

NextCollector ==
  \/ \E d \in CallerDiagnostics : Add(d)
  \/ \E n \in RowsDropped : AddMissingValuesDropped(n)
  \/ AddLabelNotFound
  \/ AddLabelTypeInvalid
  \/ AddZeroRows
  \/ AddZeroFeatures
  \/ AddLabelOnlyDataset
  \/ HasErrors
  \/ GetAll
  \/ ToList
  \/ Clear
  \/ \E method \in ListMethods, d \in CallerDiagnostics : ChangeReturnedList(method, d)

InitCollector ==
  ProvenanceIdle /\ RegistryIdle /\ ResolverIdle /\ RunIdle /\ CallIdle /\ CollectorInit

SpecCollector == InitCollector /\ [][NextCollector]_vars

-----------------------------------------------------------------------------
(* The provenance index: append-only, atomic save, recovery.               *)

(* The run entry the index is to hold for one append call.                 *)
EntryFor(a) ==
  [run_id |-> a.run_id,
   created_at |-> a.created_at,
   dataset_fingerprint_sha256 |-> a.dataset_fingerprint,
   label_column |-> a.label_column,
   run_dir |-> a.run_dir,
   model_pkl |-> a.model_pkl]

(* A file content that load_index accepts as an index.                     *)
IsIndexFile(c) ==
  /\ c.k = "text"
  /\ c.upto \in {"body", "full"}
  /\ c.json.t = "dict"
  /\ "runs" \in DOMAIN c.json.d

RunsOnDisk(f) == f.index.json.d.runs.l

\* C1: starting from an absent index file, after N sequential
\* append_run_to_index calls (one writer, no kill) load_index returns a runs
\* list of length N whose k-th entry holds the fields of the k-th call, and
\* no step removes, moves or changes an entry already stored.
C1_AppendOnlyInCallOrder ==
  /\ [](LET ld == load_index(fs, now, platform)
        IN  /\ ld.raised = "none"
            /\ ld.value.d.runs.t = "list"
            /\ Len(ld.value.d.runs.l) = Len(calls)
            /\ \A k \in 1..Len(calls) : ld.value.d.runs.l[k] = EntryFor(calls[k]))
  /\ [][IsIndexFile(fs.index) =>
          /\ IsIndexFile(fs'.index)
          /\ Len(RunsOnDisk(fs')) >= Len(RunsOnDisk(fs))
          /\ \A k \in 1..Len(RunsOnDisk(fs)) : RunsOnDisk(fs')[k] = RunsOnDisk(fs)[k]]_vars

(* Two appends with different arguments have returned.                     *)
C1_Witness ==
  /\ Len(calls) >= 2
  /\ calls[1] # calls[2]
  /\ op[Writer].name = "idle"
  /\ IsIndexFile(fs.index)
  /\ Len(RunsOnDisk(fs)) = Len(calls)

\* C2: save_index writes the whole document to index.json.tmp and then
\* renames it over index.json: every step before the rename, and a kill at
\* any step, leaves index.json as it was; the rename makes it the complete
\* new document; index.json never holds a truncated document.
C2_AtomicSave ==
  /\ [](/\ fs.index.k = "text" => fs.index.upto = "full"
        /\ op[Writer].pc = "rename" => fs.tmp = Text(op[Writer].index, "full"))
  /\ [][/\ op[Writer].pc \in {"mkdir", "open", "dump", "newline"} => fs'.index = fs.index
        /\ op[Writer].pc = "rename" =>
             \/ fs'.index = fs.index
             \/ fs'.index = Text(op[Writer].index, "full")]_vars

(* The writer was killed while the temp file held part of the new document *)
(* and index.json held the previous one.                                   *)
C2_Witness ==
  /\ ret[Writer].raised = "killed"
  /\ fs.tmp.k = "text"
  /\ fs.tmp.upto = "partial"
  /\ IsIndexFile(fs.index)
  /\ fs.index.upto = "full"
  /\ Len(RunsOnDisk(fs)) = 1
  /\ Len(fs.tmp.json.d.runs.l) = 2

\* C3: load_index on an existing index file whose content is no valid
\* index never raises: it returns a fresh index (current schema version, no
\* runs), the bad file is no longer at index.json, and a backup
\* index.json.corrupt.<timestamp> holds the original bytes.
C3_LoadNeverRaises ==
  [][(CallLoad(Writer) /\ fs.index.k # "absent" /\ ~IsIndexFile(fs.index)) =>
       /\ ret'[Writer].raised = "none"
       /\ ret'[Writer].value = EmptyIndex
       /\ fs'.index = NoFile
       /\ \E ts \in DOMAIN fs'.backups : fs'.backups[ts] = fs.index]_vars

-----------------------------------------------------------------------------
(* run_training and the provenance index.                                  *)

ProvenanceFailed(r) == r.provenance \notin {"-", "none", "skipped"}

ArtifactsOf(r) ==
  [dir |-> TRUE, artifacts |-> TRUE,
   model_pkl |-> Pickle(r.pipeline),
   metrics_json |-> Json([keys |-> {"accuracy", "num_samples", "num_features"}]),
   run_json |-> Json(r.metadata)]

(* C4: when the provenance append of run_training fails with an exception, *)
(* the exception does not leave run_training: the call prints the warning  *)
(* (and no "index updated" line), goes on to its end and returns, and      *)
(* model.pkl, metrics.json and run.json stay as the call wrote them.       *)
C4_ProvenanceFailureIsWarning ==
  /\ [](ProvenanceFailed(run) =>
          /\ run.pc \in {"summary", "returned"}
          /\ run.raised = "none"
          /\ stdout[1] = Warning(run.provenance)
          /\ Updated \notin { stdout[i] : i \in DOMAIN stdout }
          /\ out = ArtifactsOf(run))
  /\ [][run.pc \in {"provenance", "summary"} =>
          /\ out' = out
          /\ run'.pc # "raised"]_vars

C4_Witness ==
  /\ run.pc = "returned"
  /\ run.provenance = "RecursionError"
  /\ stdout = << Warning("RecursionError"), Complete >>
  /\ out.model_pkl # NoFile /\ out.metrics_json # NoFile /\ out.run_json # NoFile

-----------------------------------------------------------------------------
(* The resolver: precedence, model family, profile fields, sources.        *)

RegisteredNames == { ProfileRegistry[i][1] : i \in 1..Len(ProfileRegistry) }
IsRegistered(pn) == pn # None /\ pn.s \in RegisteredNames
DeclaredProfile(pn) ==
  ProfileRegistry[CHOOSE i \in 1..Len(ProfileRegistry) : ProfileRegistry[i][1] = pn.s][2]

(* A dict as a map: the set of its << name, value >> pairs.                *)
AsMap(items) == { items[i] : i \in 1..Len(items) }
Names(map) == { item[1] : item \in map }
ValueIn(map, name) == (CHOOSE item \in map : item[1] = name)[2]

(* What the profile and the command line of the call under study give.     *)
ProfileGives ==
  IF IsRegistered(rcall.profile_name)
    THEN AsMap(DeclaredProfile(rcall.profile_name).params.kv)
    ELSE {}
CliGives == IF rcall.cli_params = None THEN {} ELSE AsMap(rcall.cli_params.kv)

ResolveReturned == rret.call = "resolve_config" /\ rret.raised = "none"

\* C5: the hyperparameters resolve_config returns are the profile's params
\* overridden by cli_params: a name in both has the CLI value and source
\* "cli", a name only in the profile has the profile's value and source
\* "profile", a name only in cli_params has the CLI value and source "cli",
\* and no other name is in the result.
C5_CliOverridesProfile ==
  ResolveReturned =>
    LET h == rret.value.hyperparameters
        src == rret.value.param_sources
    IN  /\ Len(h) = Cardinality(dict_keys(h))
        /\ dict_keys(h) = Names(ProfileGives) \cup Names(CliGives)
        /\ \A name \in Names(CliGives) :
             /\ dict_get(h, name) = ValueIn(CliGives, name)
             /\ dict_get(src, name).source = "cli"
        /\ \A name \in Names(ProfileGives) \ Names(CliGives) :
             /\ dict_get(h, name) = ValueIn(ProfileGives, name)
             /\ dict_get(src, name).source = "profile"

(* A call that returned with a name in both, one only in the profile and   *)
(* one only on the command line.                                           *)
C5_Witness ==
  /\ ResolveReturned
  /\ Names(ProfileGives) \cap Names(CliGives) # {}
  /\ Names(ProfileGives) \ Names(CliGives) # {}
  /\ Names(CliGives) \ Names(ProfileGives) # {}
  /\ \E name \in Names(ProfileGives) \cap Names(CliGives) :
       ValueIn(ProfileGives, name) # ValueIn(CliGives, name)

\* C6: for a registered profile P and any caller-supplied family X the
\* result's model_family is the family P declares; a call that uses no
\* registered profile gets X back unchanged.
C6_ProfileFamilyWins ==
  ResolveReturned =>
    IF IsRegistered(rcall.profile_name)
      THEN rret.value.model_family = DeclaredProfile(rcall.profile_name).model_family
      ELSE rret.value.model_family = rcall.model_family

(* The caller asked for one family, the profile declares another.          *)
C6_Witness ==
  /\ ResolveReturned
  /\ IsRegistered(rcall.profile_name)
  /\ rcall.model_family # DeclaredProfile(rcall.profile_name).model_family
  /\ rret.value.model_family # rcall.model_family

IsHexDigest(cps) ==
  /\ Len(cps) = 64
  /\ \A i \in 1..Len(cps) : cps[i] \in (48..57) \cup (97..102)

\* C7: in every result of resolve_config, profile_name, profile_version
\* and expanded_parameters_hash are all set, which is the case exactly when
\* a profile was used, or all None.
C7_ProfileFieldsAllOrNothing ==
  ResolveReturned =>
    LET v == rret.value
    IN  \/ /\ IsRegistered(rcall.profile_name)
           /\ v.profile_name = rcall.profile_name
           /\ v.profile_version = PyStr(DeclaredProfile(rcall.profile_name).version)
           /\ v.expanded_parameters_hash # None
           /\ IsHexDigest(v.expanded_parameters_hash.cps)
        \/ /\ ~IsRegistered(rcall.profile_name)
           /\ v.profile_name = None
           /\ v.profile_version = None
           /\ v.expanded_parameters_hash = None

(* A profile without params was used and nothing came from the command     *)
(* line: the three fields are set although no parameter is.                *)
C7_Witness ==
  /\ ResolveReturned
  /\ IsRegistered(rcall.profile_name)
  /\ rret.value.hyperparameters = << >>
  /\ rret.value.profile_version # None

\* C8: in every result of resolve_config the keys of param_sources are the
\* keys of hyperparameters, and param_sources[k] has name k and the value
\* hyperparameters[k].
C8_SourcesMatchHyperparameters ==
  ResolveReturned =>
    LET h == rret.value.hyperparameters
        src == rret.value.param_sources
    IN  /\ Len(src) = Cardinality(dict_keys(src))
        /\ Len(h) = Cardinality(dict_keys(h))
        /\ dict_keys(src) = dict_keys(h)
        /\ \A k \in dict_keys(h) :
             /\ dict_get(src, k).name = k
             /\ dict_get(src, k).value = dict_get(h, k)

(* A CLI value has replaced a profile value of the same name.              *)
C8_Witness ==
  /\ ResolveReturned
  /\ \E name \in Names(ProfileGives) \cap Names(CliGives) :
       /\ ValueIn(ProfileGives, name) # ValueIn(CliGives, name)
       /\ dict_get(rret.value.param_sources, name).value = ValueIn(CliGives, name)
  /\ Len(rret.value.hyperparameters) = 2

\* C9: resolve_config raises UnknownProfileError whenever it is given a
\* profile_name that is not a registered profile name, and raises nothing
\* otherwise, whatever cli_params holds.
C9_UnknownProfileRaises ==
  rret.call = "resolve_config" =>
    IF rcall.profile_name # None /\ ~IsRegistered(rcall.profile_name)
      THEN rret.raised = "UnknownProfileError"
      ELSE rret.raised = "none"

-----------------------------------------------------------------------------
(* The expansion hash.                                                     *)

SameHashedFields(a1, a2) ==
  /\ a1.profile_name = a2.profile_name
  /\ a1.profile_version = a2.profile_version
  /\ a1.model_family = a2.model_family
  /\ AsMap(a1.params) = AsMap(a2.params)

\* C10: the expansion hash is a function of exactly (profile_name,
\* profile_version, model_family, params as a map): two hashes are equal if
\* and only if the four agree, whatever the insertion order of params;
\* every expansion of the same profile name gives the same digest, and
\* every digest is 64 lowercase hex characters.
C10_HashOfExactlyFourFields ==
  /\ \A i \in 1..Len(hashed) : IsHexDigest(hashed[i].digest)
  /\ \A i, j \in 1..Len(hashed) :
       (hashed[i].digest = hashed[j].digest) <=> SameHashedFields(hashed[i].args, hashed[j].args)
  /\ \A i \in 1..Len(expanded) :
       expanded[i].raised = "none" =>
         IsHexDigest(expanded[i].value.expanded_parameters_hash.cps)
  /\ \A i, j \in 1..Len(expanded) :
       (expanded[i].raised = "none" /\ expanded[j].raised = "none"
        /\ expanded[i].name = expanded[j].name) =>
         expanded[i].value.expanded_parameters_hash = expanded[j].value.expanded_parameters_hash

(* Two calls whose params hold the same items in a different order.        *)
C10_Witness ==
  /\ Len(hashed) = 2
  /\ hashed[1].args.params # hashed[2].args.params
  /\ SameHashedFields(hashed[1].args, hashed[2].args)
  /\ hashed[1].digest = hashed[2].digest

-----------------------------------------------------------------------------
(* Hyperparameter validation: the checks, their order, all or nothing.     *)

ValidateReturned ==
  /\ fcall # None
  /\ fcall.fn = "validate_and_convert"
  /\ fret # NoReturn

AllowList(family) ==
  CASE family = "logistic_regression" -> {"C", "max_iter", "solver", "warm_start"}
    [] family = "random_forest" ->
         {"n_estimators", "max_depth", "min_samples_split", "min_samples_leaf"}
    [] family = "linear_svc" -> {"C", "max_iter"}
    [] OTHER -> {}

(* The declared bounds, as statements about numbers: nan is not > 0.       *)
FloatPositive(x) ==
  \/ x.k = "inf" /\ x.sign = 1
  \/ x.k = "finite" /\ x.sign = 1 /\ x.digits > 0

MeetsBound(name, value) ==
  CASE name = "C" -> FloatPositive(value.x)
    [] name \in {"max_iter", "n_estimators", "min_samples_leaf"} -> value.i > 0
    [] name = "min_samples_split" -> value.i >= 2
    [] name = "max_depth" -> value = None \/ value.i >= 1
    [] OTHER -> TRUE

(* The parser of the declared type of a name.                              *)
ParseAs(name, raw) ==
  CASE name = "C" -> _parse_float(Chars(raw))
    [] name \in {"max_iter", "n_estimators", "min_samples_leaf", "min_samples_split"} ->
         _parse_int(Chars(raw))
    [] name = "max_depth" -> _parse_int_or_none(Chars(raw))
    [] name = "warm_start" -> _parse_bool(Chars(raw))
    [] OTHER -> _parse_str(raw)

(* What the three checks, in the order allow-list, parse, range, say       *)
(* about a pair.                                                           *)
Verdict(family, name, raw) ==
  IF name \notin AllowList(family) THEN "UnknownParamError"
  ELSE IF ParseAs(name, raw).raised # "none" THEN "TypeParseError"
  ELSE IF ~MeetsBound(name, ParseAs(name, raw).value) THEN "RangeError"
  ELSE "none"

FirstFailing(family, items) ==
  IF \E i \in DOMAIN items : Verdict(family, items[i][1], items[i][2].s) # "none"
    THEN CHOOSE i \in DOMAIN items :
           /\ Verdict(family, items[i][1], items[i][2].s) # "none"
           /\ \A j \in 1..(i - 1) : Verdict(family, items[j][1], items[j][2].s) = "none"
    ELSE 0

(* C11: for a known family, the call raises what the first pair that fails *)
(* a check fails first (unknown name, then unparsable value, then value    *)
(* outside its bound), naming that pair; when no pair fails, every pair is *)
(* returned as the value its string parses to.                             *)
C11_ChecksInOrder ==
  (ValidateReturned /\ fcall.model_family \in dict_keys(MODEL_PARAMS)) =>
    LET items == fcall.params.kv
        bad == FirstFailing(fcall.model_family, items)
    IN  IF bad # 0
          THEN /\ fret.raised = Verdict(fcall.model_family, items[bad][1], items[bad][2].s)
               /\ fret.param_name = items[bad][1]
          ELSE /\ fret.raised = "none"
               /\ \A i \in DOMAIN items :
                    dict_get(fret.value.kv, items[i][1])
                      = ParseAs(items[i][1], items[i][2].s).value

(* The same with nan left out of the raw values.                           *)
C11_ChecksInOrderButNaN ==
  (\A i \in DOMAIN fcall.params.kv : fcall.params.kv[i][2].s # "nan") => C11_ChecksInOrder

CheckOf(family, pair) ==
  check_pair(dict_get(MODEL_PARAMS, family), pair[1], pair[2].s)

FirstInvalid(family, items) ==
  IF \E i \in DOMAIN items : CheckOf(family, items[i]).raised # "none"
    THEN CHOOSE i \in DOMAIN items :
           /\ CheckOf(family, items[i]).raised # "none"
           /\ \A j \in 1..(i - 1) : CheckOf(family, items[j]).raised = "none"
    ELSE 0

(* C12: a call with a pair that fails its check raises the error of the    *)
(* first such pair and returns no map, whatever valid pairs precede it; a  *)
(* call whose pairs are all valid returns a map with exactly the keys of   *)
(* the input; and the call changes nothing but its own result (the params  *)
(* dict it was given included).                                            *)
C12_AllOrNothing ==
  /\ []((ValidateReturned /\ fcall.model_family \in dict_keys(MODEL_PARAMS)) =>
          LET items == fcall.params.kv
              bad == FirstInvalid(fcall.model_family, items)
          IN  IF bad # 0
                THEN /\ fret.raised = CheckOf(fcall.model_family, items[bad]).raised
                     /\ fret.param_name = items[bad][1]
                     /\ fret.value = None
                ELSE /\ fret.raised = "none"
                     /\ Len(fret.value.kv) = Len(items)
                     /\ dict_keys(fret.value.kv) = dict_keys(items))
  /\ [][Validate =>
          UNCHANGED << fcall, provenanceVars, registryVars, resolverVars, runVars >>]_vars

C12_Witness ==
  /\ ValidateReturned
  /\ fcall.model_family = "logistic_regression"
  /\ Len(fcall.params.kv) = 3
  /\ FirstInvalid(fcall.model_family, fcall.params.kv) = 2
  /\ fret.raised = "RangeError"
  /\ fret.value = None

BoundedNames ==
  {"C", "max_iter", "n_estimators", "min_samples_leaf", "min_samples_split", "max_depth"}

SingleParsedPair ==
  /\ ValidateReturned
  /\ Len(fcall.params.kv) = 1
  /\ fcall.params.kv[1][1] \in BoundedNames \cap AllowList(fcall.model_family)
  /\ ParseAs(fcall.params.kv[1][1], fcall.params.kv[1][2].s).raised = "none"

(* C13: a value that parses is accepted when it meets the declared bound   *)
(* of its name (C > 0, max_iter > 0, n_estimators > 0, min_samples_leaf >  *)
(* 0, min_samples_split >= 2, max_depth none or >= 1) and raises           *)
(* RangeError when it does not.                                            *)
C13_BoundsExact ==
  SingleParsedPair =>
    LET pair == fcall.params.kv[1]
    IN  IF MeetsBound(pair[1], ParseAs(pair[1], pair[2].s).value)
          THEN fret.raised = "none"
          ELSE fret.raised = "RangeError"

(* The same for every value but nan.                                       *)
C13_BoundsExactButNaN ==
  (SingleParsedPair /\ fcall.params.kv[1][2].s # "nan") => C13_BoundsExact

-----------------------------------------------------------------------------
(* The queries: what they return, what they leave alone.                   *)

(* The runs list of the index on disk; an absent file is an empty index.   *)
HasRunsList(f) ==
  \/ f.index.k = "absent"
  \/ IsIndexFile(f.index) /\ f.index.json.d.runs.t = "list"

LedgerOf(f) == IF f.index.k = "absent" THEN << >> ELSE RunsOnDisk(f)

Matching(runs, run_id) == { i \in DOMAIN runs : runs[i].run_id = run_id }

HasFingerprint(fp, entry) == entry.dataset_fingerprint_sha256 = fp

Answer(q, runs) ==
  CASE q.name = "get_latest_run" -> IF Len(runs) = 0 THEN None ELSE runs[Len(runs)]
    [] q.name = "get_run_by_id" ->
         IF Matching(runs, q.arg) = {} THEN None
         ELSE runs[CHOOSE i \in Matching(runs, q.arg) :
                     \A j \in Matching(runs, q.arg) : i <= j]
    [] q.name = "find_runs_by_fingerprint" ->
         PyList(SelectSeq(runs, LAMBDA entry : HasFingerprint(q.arg, entry)))
    [] OTHER -> PyList(runs)

(* C14: over an index with runs r1..rN, get_latest_run returns rN (none    *)
(* when N = 0), get_run_by_id the first entry with that run_id (none when  *)
(* there is none), find_runs_by_fingerprint the entries with that          *)
(* fingerprint in ledger order.                                            *)
C14_QueryAnswers ==
  [][\A q \in Queries :
       (Query(Writer, q) /\ HasRunsList(fs)) =>
         /\ ret'[Writer].raised = "none"
         /\ ret'[Writer].value = Answer(q, LedgerOf(fs))]_vars

(* Two entries with the same run_id and different fingerprints are in the  *)
(* index and a query by that id has returned the older one.                *)
C14_Witness ==
  /\ HasRunsList(fs) /\ Len(LedgerOf(fs)) = 2
  /\ LedgerOf(fs)[1].run_id = LedgerOf(fs)[2].run_id
  /\ LedgerOf(fs)[1] # LedgerOf(fs)[2]
  /\ ret[Writer].call = "get_run_by_id"
  /\ ret[Writer].value = LedgerOf(fs)[1]

(* C15: a query leaves the .runforge directory as it found it, whatever    *)
(* index.json holds.                                                       *)
C15_QueriesArePureReads ==
  [][\A q \in Queries : Query(Writer, q) => fs' = fs]_vars

(* The same for an index file that is absent or loads as an index.         *)
C15_PureReadsOfLoadableIndex ==
  [][\A q \in Queries :
       (Query(Writer, q) /\ (fs.index.k = "absent" \/ IsIndexFile(fs.index))) =>
         fs' = fs]_vars

-----------------------------------------------------------------------------
(* Run metadata: optional field groups.                                    *)

MetadataReturned ==
  /\ fcall # None
  /\ fcall.fn = "create_run_metadata"
  /\ fret # NoReturn

(* The keys of a group, each as a path into the document.                  *)
FieldGroups ==
  { { << "profile_name" >>, << "profile_version" >>, << "expanded_parameters_hash" >> },
    { << "metrics_v1" >>, << "metrics_v1", "schema_version" >>,
      << "metrics_v1", "metrics_profile" >>, << "metrics_v1", "artifact_path" >>,
      << "artifacts", "metrics_v1_json" >> },
    { << "feature_importance_schema_version" >>, << "feature_importance_artifact" >>,
      << "artifacts", "feature_importance_json" >> },
    { << "hyperparameters" >> } }

PresentAt(doc, path) ==
  /\ path[1] \in dict_keys(doc.kv)
  /\ Len(path) = 2 => path[2] \in dict_keys(dict_get(doc.kv, path[1]).kv)

ValueAt(doc, path) ==
  IF Len(path) = 1 THEN dict_get(doc.kv, path[1])
  ELSE dict_get(dict_get(doc.kv, path[1]).kv, path[2])

(* C16: in the document of every call, each optional group is there in     *)
(* full with no null value, or not there at all.                           *)
C16_GroupsInFullOrAbsent ==
  MetadataReturned =>
    \A group \in FieldGroups :
      \/ \A path \in group : ~PresentAt(fret.value, path)
      \/ \A path \in group :
           PresentAt(fret.value, path) /\ ValueAt(fret.value, path) # None

(* The same for the calls that give the three profile arguments together   *)
(* or not at all.                                                          *)
C16_GroupsOfCompleteProfileArguments ==
  ((fcall.profile_name = None) = (fcall.profile_version = None)
     /\ (fcall.profile_name = None) = (fcall.expanded_parameters_hash = None))
    => C16_GroupsInFullOrAbsent

-----------------------------------------------------------------------------
(* A reader beside the writer.                                             *)

(* The document save_index leaves at index.json after these append calls.  *)
DocumentAfter(cs) ==
  PyDict([schema_version |-> INDEX_SCHEMA_VERSION,
          runs |-> PyList([k \in 1..Len(cs) |-> EntryFor(cs[k])])])

(* C17: with one writer, a load of the index made by another process at    *)
(* any step of a save does not raise, finds nothing to move aside, and     *)
(* returns the complete document of before the save or the complete        *)
(* document being saved: never a part of one.                              *)
C17_ReaderSeesWholeDocument ==
  [][LoadDuringSave(Reader) =>
       /\ ret'[Reader].raised = "none"
       /\ ret'[Reader].value \in
            { DocumentAfter(calls), DocumentAfter(Append(calls, op[Writer].args)) }
       /\ fs' = fs]_vars

(* The reader has loaded the one-run document while the temp file held a   *)
(* part of the two-run document.                                           *)
C17_Witness ==
  /\ op[Writer].pc = "dump"
  /\ fs.tmp.k = "text"
  /\ fs.tmp.upto = "partial"
  /\ Len(fs.tmp.json.d.runs.l) = 2
  /\ ret[Reader].call = "load_index"
  /\ ret[Reader].raised = "none"
  /\ ret[Reader].value = DocumentAfter(calls)
  /\ Len(calls) = 1

\* C18: for a registered profile P and any cli_params, the
\* expanded_parameters_hash of resolve_config(profile_name=P,
\* cli_params=...) is the expanded_parameters_hash of expand_profile(P),
\* which is the digest of the profile as the registry declares it: what the
\* command line overrides or adds does not reach the hash.
C18_HashIgnoresCli ==
  (ResolveReturned /\ IsRegistered(rcall.profile_name)) =>
    LET declared == DeclaredProfile(rcall.profile_name)
    IN  /\ rret.value.expanded_parameters_hash =
             expand_profile(rcall.profile_name.s).value.expanded_parameters_hash
        /\ rret.value.expanded_parameters_hash =
             PyStrOf(_compute_expansion_hash(declared.name, declared.version,
                                             declared.model_family, declared.params.kv))

(* A call returned whose cli_params replace a value of the profile and add *)
(* a name the profile does not have.                                       *)
C18_Witness ==
  /\ ResolveReturned
  /\ IsRegistered(rcall.profile_name)
  /\ rcall.cli_params # None
  /\ LET declared == DeclaredProfile(rcall.profile_name).params.kv
         given == rcall.cli_params.kv
     IN  /\ \E name \in dict_keys(declared) \cap dict_keys(given) :
               dict_get(declared, name) # dict_get(given, name)
         /\ dict_keys(given) \ dict_keys(declared) # {}
         /\ rret.value.hyperparameters # declared

-----------------------------------------------------------------------------
(* run_training and the hyperparameters of the estimator.                  *)

(* The call has built its estimator.                                       *)
Trained == run.pipeline # None

(* C19: once run_training has built the estimator, every hyperparameter    *)
(* name that both cli_params and the selected profile give is a keyword    *)
(* argument of the estimator, and its value is the CLI string as           *)
(* validate_and_convert types it for the resolved family, whatever value   *)
(* the profile declares for the name.                                      *)
C19_EstimatorGetsCliValue ==
  (Trained /\ IsRegistered(run.args.profile_name) /\ run.args.cli_params # None) =>
    LET declared == DeclaredProfile(run.args.profile_name)
        given == run.args.cli_params.kv
        model_specs == dict_get(MODEL_PARAMS, declared.model_family)
    IN  \A name \in dict_keys(declared.params.kv) \cap dict_keys(given) :
          LET validated == check_pair(model_specs, name, dict_get(given, name).s)
          IN  /\ validated.raised = "none"
              /\ name \in dict_keys(run.pipeline.kwargs)
              /\ dict_get(run.pipeline.kwargs, name) = validated.value

(* A call with the profile "thorough" has returned whose cli_params gave   *)
(* both names of the profile, and the estimator has the CLI values, which  *)
(* are not the profile's.                                                  *)
C19_Witness ==
  /\ run.pc = "returned"
  /\ run.args.profile_name = PyStr("thorough")
  /\ run.args.cli_params # None
  /\ dict_keys(run.args.cli_params.kv) = {"n_estimators", "max_depth"}
  /\ dict_get(run.pipeline.kwargs, "n_estimators") = PyInt(2)
  /\ dict_get(run.pipeline.kwargs, "max_depth") = None
  /\ dict_get(DeclaredProfile(run.args.profile_name).params.kv, "n_estimators") # PyInt(2)
  /\ dict_get(DeclaredProfile(run.args.profile_name).params.kv, "max_depth") # None

-----------------------------------------------------------------------------
(* The command line of the train command.                                  *)

MainReturned == fret.call = "main"

OptionValues(argv, option) ==
  LET given == SelectSeq(argv, LAMBDA arg : arg[1] = option)
  IN  [i \in 1..Len(given) |-> given[i][2]]

Without(argv, options) == SelectSeq(argv, LAMBDA arg : arg[1] \notin options)

(* The train command's own options are in order: the command line without  *)
(* its --param and --profile options parses.                               *)
OwnOptionsParse(argv) ==
  parse_args(Without(argv, {"--param", "--profile"}), EmptyNamespace, {}, << >>).raised = "none"

GivenParams(argv) ==
  LET strings == OptionValues(argv, "--param")
  IN  parse_params([i \in 1..Len(strings) |-> ArgChars(strings[i])], << >>)

GivenProfile(argv) ==
  LET names == OptionValues(argv, "--profile")
  IN  IF names = << >> THEN None ELSE PyStr(names[Len(names)])

(* C20: a train command line with --param name=value options (any number)  *)
(* and a --profile option makes main call run_training once with           *)
(* cli_params, the names and raw value strings of the --param options, and *)
(* profile_name, the profile named; with a --param that has no "=", no     *)
(* name or no value main returns 1 and run_training is not called.         *)
C20_ParamAndProfileFlags ==
  (/\ MainReturned
   /\ OwnOptionsParse(fcall.argv)
   /\ Without(fcall.argv, {"--param", "--profile"}) # fcall.argv) =>
    IF GivenParams(fcall.argv).raised # "none"
      THEN /\ fret.exit = Exit("return", 1)
           /\ fret.run_training = << >>
      ELSE /\ Len(fret.run_training) = 1
           /\ "cli_params" \in DOMAIN fret.run_training[1]
           /\ "profile_name" \in DOMAIN fret.run_training[1]
           /\ fret.run_training[1].cli_params.t = "dict"
           /\ fret.run_training[1].cli_params.kv = GivenParams(fcall.argv).value
           /\ fret.run_training[1].profile_name = GivenProfile(fcall.argv)

(* main as the source has it: a command line with a --param or a --profile *)
(* option ends in exit status 2 without a call of run_training; the train  *)
(* command's own options alone give one call with the four arguments       *)
(* preset_id, out_dir, seed and device.                                    *)
C20_OnlyOwnOptions ==
  MainReturned =>
    IF OwnOptionsParse(fcall.argv) /\ Without(fcall.argv, {"--param", "--profile"}) = fcall.argv
      THEN /\ Len(fret.run_training) = 1
           /\ DOMAIN fret.run_training[1] = {"preset_id", "out_dir", "seed", "device"}
           /\ fret.exit = Exit("return", IF fcall.outcome = "none" THEN 0 ELSE 1)
      ELSE /\ fret.run_training = << >>
           /\ fret.exit = Exit("SystemExit", 2)

-----------------------------------------------------------------------------
(* The linear-coefficients pointer of run.json.                            *)

KeywordReturned ==
  /\ fcall # None
  /\ fcall.fn = "create_run_metadata(**kwargs)"
  /\ fret # NoReturn

Given(kwargs, name) == name \in DOMAIN kwargs /\ kwargs[name] # None

LinearCoefficientsKeys ==
  { << "linear_coefficients_schema_version" >>, << "linear_coefficients_artifact" >>,
    << "artifacts", "linear_coefficients_json" >> }

(* C21: a call of create_run_metadata that gives both                      *)
(* linear_coefficients_schema_version and linear_coefficients_artifact_path*)
(* returns a document with linear_coefficients_schema_version,             *)
(* linear_coefficients_artifact and artifacts.linear_coefficients_json; a  *)
(* call that gives neither returns a document with none of the three.      *)
C21_LinearCoefficientsPointer ==
  KeywordReturned =>
    LET version == Given(fcall.kwargs, "linear_coefficients_schema_version")
        path == Given(fcall.kwargs, "linear_coefficients_artifact_path")
    IN  /\ (version /\ path) =>
             /\ fret.raised = "none"
             /\ \A key \in LinearCoefficientsKeys : PresentAt(fret.value, key)
        /\ (~version /\ ~path /\ fret.raised = "none") =>
             \A key \in LinearCoefficientsKeys : ~PresentAt(fret.value, key)

(* create_run_metadata as the source has it: a call that names either      *)
(* linear-coefficients argument raises TypeError, and no document it       *)
(* returns has any of the three keys.                                      *)
C21_PointerArgumentsUnknown ==
  KeywordReturned =>
    IF \E name \in DOMAIN fcall.kwargs :
         name \in {"linear_coefficients_schema_version", "linear_coefficients_artifact_path"}
      THEN fret.raised = "TypeError"
      ELSE /\ fret.raised = "none"
           /\ \A key \in LinearCoefficientsKeys : ~PresentAt(fret.value, key)

-----------------------------------------------------------------------------
(* run_training: the artifacts and the index.                              *)

(* model.pkl, metrics.json and run.json of the call under way are on disk, *)
(* each whole and holding what the call computed.                          *)
ArtifactsWritten ==
  /\ out.dir /\ out.artifacts
  /\ out.model_pkl.k = "pickle"
  /\ out.model_pkl.pipeline = run.pipeline
  /\ out.metrics_json.k = "json"
  /\ out.run_json.k = "json"
  /\ out.run_json.doc = run.metadata

(* C22: run_training reaches its provenance step only with model.pkl,      *)
(* metrics.json and run.json written, and while a call is under way        *)
(* index.json changes in that step only: the index never gains the entry   *)
(* of a run whose artifacts are not yet on disk.                           *)
C22_ArtifactsBeforeProvenance ==
  /\ [](run.pc \in {"provenance", "summary", "returned"} => ArtifactsWritten)
  /\ [][(run.pc \in Running /\ (fs'.index # fs.index \/ calls' # calls)) =>
          /\ run.pc = "provenance"
          /\ ArtifactsWritten
          /\ out' = out]_vars

(* A call has put its run into the index and gone on to its summary.       *)
C22_Witness ==
  /\ run.pc = "summary"
  /\ run.provenance = "none"
  /\ ArtifactsWritten
  /\ IsIndexFile(fs.index)
  /\ Len(RunsOnDisk(fs)) >= 1
  /\ RunsOnDisk(fs)[Len(RunsOnDisk(fs))].run_id = run.metadata.run_id

-----------------------------------------------------------------------------
(* Two appending processes.                                                *)

(* C23: nothing orders the appends of two processes: the save of a process *)
(* returns without error and leaves at index.json the runs that process    *)
(* had loaded with its own entry added, whatever another process has saved *)
(* since that load.  When both processes load before either saves, both    *)
(* calls return and the index holds the entry of the later save alone      *)
(* (the state C23_Witness).                                                *)
C23_LastSaveWins ==
  [][\A p \in Procs :
       SaveWhole(p) =>
         /\ ret'[p].raised = "none"
         /\ IsIndexFile(fs'.index)
         /\ RunsOnDisk(fs') = op[p].index.d.runs.l
         /\ RunsOnDisk(fs')[Len(RunsOnDisk(fs'))] = EntryFor(op[p].args)]_vars

(* Both processes have returned from their first append without error, the *)
(* two entries differ, and the index holds one entry.                      *)
C23_Witness ==
  /\ \A p \in Procs : op[p].name = "idle" /\ ret[p] = Returned("append_run_to_index", "none", None)
  /\ Len(calls) = 2
  /\ EntryFor(calls[1]) # EntryFor(calls[2])
  /\ IsIndexFile(fs.index)
  /\ RunsOnDisk(fs) = << EntryFor(calls[2]) >>

-----------------------------------------------------------------------------
(* run_training: the family the command line is validated against.         *)

(* The call under way has left its resolve step, by raising or by going on.*)
ResolveDone == run.args # None /\ run.pc \notin {"idle", "resolve"}

(* The family of the selected profile when there is one, else the family   *)
(* the caller gave.                                                        *)
EffectiveFamily(a) ==
  IF IsRegistered(a.profile_name) THEN DeclaredProfile(a.profile_name).model_family
  ELSE a.model_family

CliPairs(a) == IF a.cli_params = None THEN << >> ELSE a.cli_params.kv

(* What the check of each CLI pair against a family gives.                 *)
CliVerdicts(a, family) ==
  { check_pair(dict_get(MODEL_PARAMS, family), CliPairs(a)[i][1], CliPairs(a)[i][2].s).raised :
      i \in 1..Len(CliPairs(a)) }

-----------------------------------------------------------------------------
(* run_training: what of the validated hyperparameters the estimator gets. *)

(* C25: once run_training has built the estimator, every CLI name of the   *)
(* resolved family's allow-list is a parameter the estimator was built     *)
(* with, and its value is the typed CLI value.                             *)
C25_NoAcceptedNameDropped ==
  (Trained /\ run.args.cli_params # None) =>
    \A name \in dict_keys(run.args.cli_params.kv) \cap AllowList(run.resolved.model_family) :
      /\ name \in dict_keys(run.pipeline.estimator)
      /\ dict_get(run.pipeline.estimator, name) =
           check_pair(dict_get(MODEL_PARAMS, run.resolved.model_family), name,
                      dict_get(run.args.cli_params.kv, name).s).value

(* The names train_model looks up for a family.                            *)
PassedOn(family) ==
  CASE family = "logistic_regression" -> {"C", "max_iter", "solver", "warm_start"}
    [] family = "random_forest" -> {"n_estimators", "max_depth"}
    [] family = "linear_svc" -> {"C", "max_iter"}

(* run_training as the source has it: the names train_model looks up reach *)
(* the estimator with the typed CLI value; min_samples_split and           *)
(* min_samples_leaf validate and are no parameter of the estimator built.  *)
C25_PassedOnOrDropped ==
  (Trained /\ run.args.cli_params # None) =>
    \A name \in dict_keys(run.args.cli_params.kv) :
      IF name \in PassedOn(run.resolved.model_family)
        THEN /\ name \in dict_keys(run.pipeline.estimator)
             /\ dict_get(run.pipeline.estimator, name) =
                  check_pair(dict_get(MODEL_PARAMS, run.resolved.model_family), name,
                             dict_get(run.args.cli_params.kv, name).s).value
        ELSE /\ name \in {"min_samples_split", "min_samples_leaf"}
             /\ name \notin dict_keys(run.pipeline.estimator)
             /\ name \notin dict_keys(run.pipeline.kwargs)

-----------------------------------------------------------------------------
(* run_training: failures of resolution and validation.                    *)

ResolutionErrors == {"UnknownProfileError", "UnknownParamError", "TypeParseError", "RangeError"}

(* The call under way names a profile that is not registered, or gives a   *)
(* CLI pair that fails the check of the effective family.                  *)
ResolutionFails(a) ==
  \/ truthy(a.profile_name) /\ ~IsRegistered(a.profile_name)
  \/ /\ ~truthy(a.profile_name) \/ IsRegistered(a.profile_name)
     /\ ~(CliVerdicts(a, EffectiveFamily(a)) \subseteq {"none"})

(* C26: a call of run_training whose profile is unknown or whose           *)
(* hyperparameters fail validation raises UnknownProfileError,             *)
(* UnknownParamError, TypeParseError or RangeError in its first step, with *)
(* nothing written: no output directory, no model.pkl, metrics.json or     *)
(* run.json, and index.json and the directory around it as they were.      *)
C26_FailsBeforeOutput ==
  /\ []((ResolveDone /\ run.args.preset_id \in PRESETS /\ ResolutionFails(run.args)) =>
          /\ run.pc = "raised"
          /\ run.raised \in ResolutionErrors
          /\ out = EmptyOut)
  /\ [][(run'.pc = "raised" /\ run.pc # "raised" /\ run'.raised \in ResolutionErrors) =>
          /\ run.pc = "resolve"
          /\ out = EmptyOut /\ out' = out
          /\ fs' = fs /\ calls' = calls]_vars

(* A second call raised RangeError with nothing written, the index still   *)
(* holding the one run of the first call.                                  *)
C26_Witness ==
  /\ run.n = 2
  /\ run.pc = "raised"
  /\ run.raised = "RangeError"
  /\ out = EmptyOut
  /\ IsIndexFile(fs.index)
  /\ Len(RunsOnDisk(fs)) = 1
  /\ Len(calls) = 1

-----------------------------------------------------------------------------
(* Run ids in the index.                                                   *)

IndexedRuns ==
  IF IsIndexFile(fs.index) /\ fs.index.json.d.runs.t = "list" THEN RunsOnDisk(fs) ELSE << >>

(* C27: no two entries of the index that run_training calls have written   *)
(* carry the same run_id.                                                  *)
C27_RunIdsUnique ==
  \A i, j \in 1..Len(IndexedRuns) :
    IndexedRuns[i].run_id = IndexedRuns[j].run_id => i = j

(* generate_run_id as the source has it: two entries have the same run_id  *)
(* exactly when their runs began in the same second on a dataset with the  *)
(* same fingerprint.                                                       *)
C27_SameSecondSameDataset ==
  \A i, j \in 1..Len(IndexedRuns) :
    IndexedRuns[i].run_id = IndexedRuns[j].run_id <=>
      /\ IndexedRuns[i].created_at = IndexedRuns[j].created_at
      /\ IndexedRuns[i].dataset_fingerprint_sha256 = IndexedRuns[j].dataset_fingerprint_sha256

-----------------------------------------------------------------------------
(* The backups of recovery.                                                *)

(* C28: no step changes or removes a backup file that is there: a recovery *)
(* writes its backup under a name no earlier backup has, so that the bytes *)
(* every recovery moved aside stay on disk, also when two recoveries fall  *)
(* into the same second.                                                   *)
C28_BackupsKept ==
  [][/\ \A ts \in DOMAIN fs.backups :
          ts \in DOMAIN fs'.backups /\ fs'.backups[ts] = fs.backups[ts]
     /\ fs'.backups # fs.backups =>
          \E ts \in DOMAIN fs'.backups \ DOMAIN fs.backups : fs'.backups[ts] = fs.index]_vars

(* load_index as the source has it: the backup of a recovery is            *)
(* index.json.corrupt.<second>, and a recovery in a second that has a      *)
(* backup already replaces that backup (POSIX) or raises FileExistsError   *)
(* and leaves the corrupt file at index.json (Windows).                    *)
C28_BackupNamedBySecond ==
  [][/\ \A ts \in DOMAIN fs.backups :
          /\ ts \in DOMAIN fs'.backups
          /\ fs'.backups[ts] # fs.backups[ts] =>
               ts = now /\ platform = "posix" /\ fs'.backups[ts] = fs.index
     /\ DOMAIN fs'.backups \subseteq DOMAIN fs.backups \cup {now}]_vars

-----------------------------------------------------------------------------
(* Appending over whatever is at index.json.                               *)

(* The append of a went through: the call returned, and a load_index after *)
(* it returns an index whose runs are a list that ends with the entry of a.*)
Appended(a) ==
  /\ ret'[Writer].raised = "none"
  /\ LET ld == load_index(fs', now', platform')
     IN  /\ ld.raised = "none"
         /\ ld.value.t = "dict"
         /\ "runs" \in DOMAIN ld.value.d
         /\ ld.value.d.runs.t = "list"
         /\ Len(ld.value.d.runs.l) > 0
         /\ ld.value.d.runs.l[Len(ld.value.d.runs.l)] = new_entry(a)

(* C29: whatever index.json holds (nothing, an index, bytes that are no    *)
(* JSON, JSON without a runs key, a runs value that is no list), an        *)
(* append_run_to_index whose save can write returns without raising, and a *)
(* load_index after it returns an index whose last run is the new entry.   *)
C29_AppendOverAnyContent ==
  [][\A a \in RunArgs : AppendRun(Writer, a, TRUE) => Appended(a)]_vars

(* The contents the append does not get over: a runs value that is no      *)
(* list, nesting beyond the recursion limit, and on Windows a corrupt file *)
(* in a second that has a backup already.                                  *)
RunsNoList(c) == IsIndexFile(c) /\ c.json.d.runs.t # "list"

BackupInTheWay ==
  /\ platform = "windows"
  /\ now \in DOMAIN fs.backups
  /\ fs.index.k # "absent"
  /\ ~IsIndexFile(fs.index)

C29_AppendOverListOrRecovered ==
  [][\A a \in RunArgs : AppendRun(Writer, a, TRUE) =>
       IF RunsNoList(fs.index) THEN ret'[Writer].raised = "AttributeError" /\ fs' = fs
       ELSE IF fs.index = Bytes("deep-nesting") THEN ret'[Writer].raised = "RecursionError" /\ fs' = fs
       ELSE IF BackupInTheWay THEN ret'[Writer].raised = "FileExistsError" /\ fs' = fs
       ELSE Appended(a)]_vars

-----------------------------------------------------------------------------
(* The diagnostics collector.                                              *)

(* C30: get_all and to_list return the diagnostics given to add since the  *)
(* last clear, in the order they were given (to_list as their dicts);      *)
(* add_missing_values_dropped(0) leaves what they return as it is; and a   *)
(* change the caller makes to a list get_all returned does not change what *)
(* the collector holds.                                                    *)
C30_ReturnsAddedSinceClear ==
  [][/\ GetAll => lists'[cret'.value.id].l = added
     /\ ToList => cret'.value = PyList([i \in 1..Len(added) |-> to_dict(added[i])])
     /\ AddMissingValuesDropped(0) => Contents' = Contents
     /\ (\E method \in ListMethods, d \in CallerDiagnostics : ChangeReturnedList(method, d)) =>
          /\ Contents' = Contents
          /\ to_list(collector', lists') = to_list(collector, lists)]_vars

(* The collector has been cleared and added to again, get_all has returned *)
(* its diagnostics, and the caller has appended to the list it got, which  *)
(* is now longer than the collector's.                                     *)
C30_Witness ==
  /\ cret.call = "get_all"
  /\ collector._diagnostics # DiagnosticsCollector.self._diagnostics
  /\ Len(Contents) = MaxDiagnostics
  /\ Contents = added
  /\ Len(lists[cret.value.id].l) > Len(Contents)
  /\ SubSeq(lists[cret.value.id].l, 1, Len(Contents)) = Contents

====
